---- MODULE Spec2Model ----
(***************************************************************************)
(* OpenFero: the deduplication + job-dispatch pipeline (webhook handler,   *)
(* CreateResponseJob, the job store and its informer index) and the alert  *)
(* history stores (MemoryStore, MemberlistStore).                          *)
(*                                                                         *)
(* Strings are sequences of byte codes, so that ToLower, SanitizeInput and *)
(* the FNV-1a hash are computed as the code computes them.                 *)
(***************************************************************************)
EXTENDS Integers, Sequences, FiniteSets, TLC

\* ------------------------------------------------------------------ bounds

\* Dispatch goroutines the webhook handler may spawn in one run.
MaxDispatch == 2
\* The capacity of the alert store the dispatcher records into.
DispatchCap == 1
\* Largest capacity a replicated store is constructed with.
MaxCap == 1
\* Largest capacity a local store is constructed with.
MaxSize == 2
\* Last reading of the wall clock.
MaxTime == 1
\* Save calls a driver issues against the nodes of a replicated store.
MaxSaves == 2
\* Save calls a driver issues against a local store.
MaxLocalSaves == 3
\* Longest list a replicated node is followed to.
MaxList == 3
\* Records a snapshot merge on its own brings together.
MaxMerge == 3

\* Records of a searched store.
MaxSearch == 2
\* TestSearchFunctionality: the store's capacity and the limit of its searches.
SearchCap == 10
SearchLimit == 100

\* Goroutines writing to one store at the same time.
MaxWriters == 2
\* The longest group key handed to HashGroupKey on its own.
MaxKeyLen == 4
\* Records a node holds before it exchanges snapshots with its peer.
MaxSync == 2

\* ----------------------------------------------------------------- strings

s_empty == << >>
s_firing == <<102, 105, 114, 105, 110, 103>>
s_resolved == <<114, 101, 115, 111, 108, 118, 101, 100>>
s_FIRING == <<70, 73, 82, 73, 78, 71>>
s_firing_lf == <<102, 105, 114, 105, 110, 103, 10>>
s_pending == <<112, 101, 110, 100, 105, 110, 103>>
s_dash == <<45>>
s_slash == <<47>>
s_openfero_dash == <<111, 112, 101, 110, 102, 101, 114, 111, 45>>
s_alertname == <<97, 108, 101, 114, 116, 110, 97, 109, 101>>
s_app == <<97, 112, 112>>
s_openfero == <<111, 112, 101, 110, 102, 101, 114, 111>>
s_team == <<116, 101, 97, 109>>
s_sre == <<115, 114, 101>>
s_groupKeyLabel == <<111, 112, 101, 110, 102, 101, 114, 111, 46, 105, 111, 47,
                     103, 114, 111, 117, 112, 45, 107, 101, 121>>
s_cpu == <<99, 112, 117>>
s_Disk == <<68, 105, 115, 107>>
s_disk == <<100, 105, 115, 107>>
s_net == <<110, 101, 116>>
s_other == <<111, 116, 104, 101, 114>>
s_mem == <<109, 101, 109>>
s_k1 == <<107, 49>>
s_k2 == <<107, 50>>
s_img == <<105, 109, 103>>
s_fix == <<102, 105, 120>>
s_sfxA == <<97, 97, 97, 97, 97>>
s_sfxB == <<56, 122, 113, 48, 120>>
s_ns == <<110, 115>>
s_OPENFERO_ == <<79, 80, 69, 78, 70, 69, 82, 79, 95>>
s_TestAlert1 == <<84, 101, 115, 116, 65, 108, 101, 114, 116, 49>>
s_TestAlert2 == <<84, 101, 115, 116, 65, 108, 101, 114, 116, 50>>
s_AnotherAlert == <<65, 110, 111, 116, 104, 101, 114, 65, 108, 101, 114, 116>>
s_YetAnotherAlert == <<89, 101, 116, 65, 110, 111, 116, 104, 101, 114, 65, 108, 101, 114, 116>>
s_RESOLVED == <<82, 69, 83, 79, 76, 86, 69, 68>>
s_summary == <<115, 117, 109, 109, 97, 114, 121>>
s_Disk_full == <<68, 105, 115, 107, 32, 102, 117, 108, 108>>

\* strings.ToLower on ASCII
ToLower(s) == [i \in 1..Len(s) |-> IF s[i] \in 65..90 THEN s[i] + 32 ELSE s[i]]

\* strings.ToUpper on ASCII
ToUpper(s) == [i \in 1..Len(s) |-> IF s[i] \in 97..122 THEN s[i] - 32 ELSE s[i]]

NotCRLF(c) == c # 10 /\ c # 13

\* ------------------------------------------------------------- pkg/utils

Charset == <<97, 98, 99, 100, 101, 102, 103, 104, 105, 106, 107, 108, 109,
             110, 111, 112, 113, 114, 115, 116, 117, 118, 119, 120, 121, 122,
             48, 49, 50, 51, 52, 53, 54, 55, 56, 57>>

SanitizeInput(input) == SelectSeq(input, NotCRLF)

\* 64-bit words are eight bytes, least significant first.
FnvOffset64 == <<37, 35, 34, 132, 228, 156, 242, 203>>

RECURSIVE XorByte(_, _, _)
XorByte(a, b, n) ==
    IF n = 0 THEN 0
    ELSE (((a % 2) + (b % 2)) % 2) + 2 * XorByte(a \div 2, b \div 2, n - 1)

\* h * 0x100000001b3 mod 2^64: h * 2^40 + h * 0x1b3, byte by byte with carry.
RECURSIVE MulPrimeFrom(_, _, _)
MulPrimeFrom(h, i, carry) ==
    IF i > 8 THEN << >>
    ELSE LET t == (h[i] * 435) + (IF i > 5 THEN h[i - 5] ELSE 0) + carry
         IN  <<t % 256>> \o MulPrimeFrom(h, i + 1, t \div 256)

FnvMulPrime(h) == MulPrimeFrom(h, 1, 0)

RECURSIVE FnvWrite(_, _, _)
FnvWrite(h, data, i) ==
    IF i > Len(data) THEN h
    ELSE FnvWrite(FnvMulPrime([h EXCEPT ![1] = XorByte(h[1], data[i], 8)]),
                  data, i + 1)

Sum64a(data) == FnvWrite(FnvOffset64, data, 1)

\* Long division of a 64-bit word by 36, most significant byte first:
\* <<quotient, remainder>>.
RECURSIVE DivMod36From(_, _, _, _)
DivMod36From(h, i, rem, q) ==
    IF i = 0 THEN <<q, rem>>
    ELSE LET cur == (rem * 256) + h[i]
         IN  DivMod36From(h, i - 1, cur % 36, [q EXCEPT ![i] = cur \div 36])

DivMod36(h) == DivMod36From(h, 8, 0, [i \in 1..8 |-> 0])

IsZero64(h) == \A i \in 1..8 : h[i] = 0

Digit36(d) == IF d < 10 THEN 48 + d ELSE 97 + (d - 10)

\* strconv.FormatUint(hash, 36)
RECURSIVE FormatUint36(_)
FormatUint36(h) ==
    LET qr == DivMod36(h)
    IN  IF IsZero64(qr[1]) THEN <<Digit36(qr[2])>>
        ELSE FormatUint36(qr[1]) \o <<Digit36(qr[2])>>

\* Variant: the empty group key is hashed like any other.
HashGroupKeyOfAny(groupKey) ==
    LET hashStr == <<103>> \o FormatUint36(Sum64a(groupKey))
    IN  IF Len(hashStr) > 63 THEN SubSeq(hashStr, 1, 63) ELSE hashStr

\* Variant: the token is the number alone.
HashGroupKeyBare(groupKey) ==
    IF groupKey = s_empty THEN s_empty
    ELSE LET hashStr == FormatUint36(Sum64a(groupKey))
         IN  IF Len(hashStr) > 63 THEN SubSeq(hashStr, 1, 63) ELSE hashStr

HashGroupKey(groupKey) ==
    IF groupKey = s_empty THEN s_empty
    ELSE LET hashStr == <<103>> \o FormatUint36(Sum64a(groupKey))
         IN  IF Len(hashStr) > 63 THEN SubSeq(hashStr, 1, 63) ELSE hashStr

\* ---------------------------------------------------------------- fixtures

\* Go maps are functions with a finite domain; the nil map is the empty one.
NilMap == << >>

\* A nil pointer is the empty sequence, a non-nil one a one-element sequence.
Nil == << >>

GroupKeys == {s_empty, s_k1, s_k2}

\* HashGroupKey on the group keys of the model, computed once.
HashedKey == [k \in GroupKeys |-> HashGroupKey(k)]

\* Alerts a webhook batch may carry.
AlertCpu == [labels |-> (s_alertname :> s_cpu)]
AlertDisk == [labels |-> (s_alertname :> s_Disk)]
Alerts == {AlertCpu, AlertDisk}

AlertMem == [labels |-> (s_alertname :> s_mem)]
AlertLowerDisk == [labels |-> (s_alertname :> s_disk)]
AlertNet == [labels |-> (s_alertname :> s_net)]
\* An alert posted without an alertname label.
AlertNoName == [labels |-> (s_team :> s_sre)]

\* The inputs of the concurrent specification: one alert name, one group key.
NarrowAlerts == {AlertCpu}
NarrowGroupKeys == {s_empty, s_k1}

\* message.Status as received, before SanitizeInput.
RawStatuses == {s_firing, s_resolved, s_firing_lf, s_FIRING}

\* The random suffixes StringWithCharset(5, Charset) may return: two of the 36^5.
Suffixes == {s_sfxA, s_sfxB}

\* client.LabelSelector, parsed from the labelSelector flag's default app=openfero.
LabelSelector == (s_app :> s_openfero)

\* A job document as json.Unmarshal leaves it in a batchv1.Job.
JobDoc(name, labels, ttl, containers) ==
    [name |-> name, labels |-> labels, ttl |-> ttl, containers |-> containers,
     env |-> {}, active |-> 0, succeeded |-> 0, failed |-> 0]

\* An entry of a ConfigMap that yaml.YAMLToJSON or json.Unmarshal refuses.
Malformed == <<[text |-> "no job document"]>>

\* The ConfigMap informer's store: the template source, read-only to the program.
\* openfero-cpu-firing     a plain job: no labels, no TTL
\* openfero-cpu-resolved   (absent)
\* openfero-disk-firing    a job carrying the selector's labels, one more and a TTL
\* openfero-disk-resolved  a job document without containers
\* openfero-mem-firing     an empty entry
\* openfero-mem-resolved   an entry that is no job document
\* openfero-net-firing     a job with another app label, one more label and a TTL of 0
\* openfero-net-resolved   a job with one label outside the selector, no TTL
ConfigMapStore ==
    (s_ns \o s_slash \o s_openfero_dash \o s_cpu \o s_dash \o s_firing :>
        [data |-> (s_cpu :> <<JobDoc(s_fix \o s_dash \o s_cpu, NilMap, Nil, <<s_img>>)>>)])
    @@
    (s_ns \o s_slash \o s_openfero_dash \o s_disk \o s_dash \o s_firing :>
        [data |-> (s_Disk :> <<JobDoc(s_fix \o s_dash \o s_disk,
                                      LabelSelector @@ (s_team :> s_sre),
                                      <<60>>, <<s_img>>)>>)])
    @@
    (s_ns \o s_slash \o s_openfero_dash \o s_disk \o s_dash \o s_resolved :>
        [data |-> (s_Disk :> <<JobDoc(s_fix \o s_dash \o s_disk, NilMap, Nil, << >>)>>)])
    @@
    (s_ns \o s_slash \o s_openfero_dash \o s_mem \o s_dash \o s_firing :>
        [data |-> (s_mem :> s_empty)])
    @@
    (s_ns \o s_slash \o s_openfero_dash \o s_mem \o s_dash \o s_resolved :>
        [data |-> (s_mem :> Malformed)])
    @@
    (s_ns \o s_slash \o s_openfero_dash \o s_net \o s_dash \o s_firing :>
        [data |-> (s_net :> <<JobDoc(s_fix \o s_dash \o s_net,
                                     (s_app :> s_other) @@ (s_team :> s_sre),
                                     <<0>>, <<s_img>>)>>)])
    @@
    (s_ns \o s_slash \o s_openfero_dash \o s_net \o s_dash \o s_resolved :>
        [data |-> (s_net :> <<JobDoc(s_fix \o s_dash \o s_net, (s_team :> s_sre),
                                     Nil, <<s_img>>)>>)])

\* ------------------------------------------------------ pkg/kubernetes/jobs

\* A Go map read: the zero value for a missing key.
MapGet(m, k) == IF k \in DOMAIN m THEN m[k] ELSE s_empty

CheckJobTTL(jobObject) == jobObject.ttl # Nil

AddJobTTL(jobObject) == [jobObject EXCEPT !.ttl = <<300>>]

CheckJobLabels(jobObject, labelSelector) ==
    \A key \in DOMAIN labelSelector :
        MapGet(jobObject.labels, key) = labelSelector[key]

AddJobLabels(jobObject, labelSelector) ==
    [jobObject EXCEPT !.labels = labelSelector]

\* One environment variable per alert label; the slice's order follows Go's map
\* iteration and is kept as a set.
AddLabelsAsEnvVars(jobObject, alert) ==
    [jobObject EXCEPT !.env = @ \cup
        {<<s_OPENFERO_ \o ToUpper(k), alert.labels[k]>> : k \in DOMAIN alert.labels}]

\* Variant: the label map is made anew for the group-key label.
AddGroupKeyLabelFresh(jobObject, groupKey) ==
    IF groupKey = s_empty THEN jobObject
    ELSE [jobObject EXCEPT !.labels = (s_groupKeyLabel :> HashedKey[groupKey])]

AddGroupKeyLabel(jobObject, groupKey) ==
    IF groupKey = s_empty THEN jobObject
    ELSE [jobObject EXCEPT
            !.labels = (s_groupKeyLabel :> HashedKey[groupKey]) @@ @]

\* --------------------------------------------------------- pkg/services

\* Variant: the status is compared without regard to case.
CheckAlertStatusAnyCase(status) ==
    ToLower(status) = s_resolved \/ ToLower(status) = s_firing

CheckAlertStatus(status) == status = s_resolved \/ status = s_firing

IsActive(job) == job.active > 0 \/ (job.succeeded = 0 /\ job.failed = 0)

HasGroupKeyLabel(job, hashedGroupKey) ==
    /\ s_groupKeyLabel \in DOMAIN job.labels
    /\ job.labels[s_groupKeyLabel] = hashedGroupKey

\* Variant: a job counts only while a pod of it runs.
checkRunningJobByGroupKey(jobs, groupKey) ==
    \E key \in DOMAIN jobs :
        /\ HasGroupKeyLabel(jobs[key], HashedKey[groupKey])
        /\ jobs[key].active > 0

\* Variant: the label is compared with the group key as received.
checkExistingJobByRawKey(jobs, groupKey) ==
    \E key \in DOMAIN jobs :
        /\ HasGroupKeyLabel(jobs[key], groupKey)
        /\ IsActive(jobs[key])

\* Variant: any job of the group counts, whatever its status.
checkAnyJobByGroupKey(jobs, groupKey) ==
    \E key \in DOMAIN jobs : HasGroupKeyLabel(jobs[key], HashedKey[groupKey])

\* Variant: any unresolved job counts, whatever its labels.
checkExistingJobAnyGroup(jobs, groupKey) ==
    \E key \in DOMAIN jobs : IsActive(jobs[key])

\* jobs is JobStore.List(): the index as the call found it.
checkExistingJobByGroupKey(jobs, groupKey) ==
    \E key \in DOMAIN jobs :
        /\ HasGroupKeyLabel(jobs[key], HashedKey[groupKey])
        /\ IsActive(jobs[key])

\* ------------------------------------------------- pkg/alertstore/memory

Entry(alert, status, timestamp, jobInfo) ==
    [alert |-> alert, status |-> status, timestamp |-> timestamp, jobInfo |-> jobInfo]

\* Variant: a store at capacity overwrites its last slot without shifting.
MemoryOverwriteLast(list, entry, cap) ==
    IF Len(list) < cap THEN Append(list, entry)
    ELSE Append(SubSeq(list, 1, Len(list) - 1), entry)

\* The list after MemoryStore.SaveAlertWithJobInfo on a store of capacity
\* maxSize >= 1 (a store at capacity shifts left and overwrites the last slot).
MemoryAppend(list, entry, cap) ==
    IF Len(list) < cap THEN Append(list, entry)
    ELSE Append(Tail(list), entry)

\* MemoryStore.GetAlerts with an empty query: from the last slot down, stopping
\* at limit when limit > 0.
RECURSIVE MemoryCollect(_, _, _, _)
MemoryCollect(list, i, limit, result) ==
    IF i < 1 THEN result
    ELSE LET r == Append(result, list[i])
         IN  IF limit > 0 /\ Len(r) >= limit THEN r
             ELSE MemoryCollect(list, i - 1, limit, r)

MemoryGetAlerts(list, limit) == MemoryCollect(list, Len(list), limit, << >>)

\* strings.Contains.
Contains(s, substr) ==
    \E i \in 0..(Len(s) - Len(substr)) : SubSeq(s, i + 1, i + Len(substr)) = substr

\* An alert built without annotations has a nil Annotations map.
AnnotationsOf(alert) ==
    IF "annotations" \in DOMAIN alert THEN alert.annotations ELSE NilMap

AnyValueContains(m, query) == \E k \in DOMAIN m : Contains(ToLower(m[k]), query)

JobInfoContains(jobInfo, query) ==
    /\ jobInfo # Nil
    /\ \/ Contains(ToLower(jobInfo[1].configMapName), query)
       \/ Contains(ToLower(jobInfo[1].jobName), query)
       \/ Contains(ToLower(jobInfo[1].image), query)

\* memory.alertMatchesQuery: the query is lowered, and so is every field it is
\* looked for in but the status.
MemoryMatchesQuery(entry, query) ==
    LET q == ToLower(query)
    IN  \/ /\ s_alertname \in DOMAIN entry.alert.labels
           /\ Contains(ToLower(entry.alert.labels[s_alertname]), q)
        \/ Contains(entry.status, q)
        \/ AnyValueContains(entry.alert.labels, q)
        \/ AnyValueContains(AnnotationsOf(entry.alert), q)
        \/ JobInfoContains(entry.jobInfo, q)

\* MemoryStore.GetAlerts with a query: from the last slot down, the matching
\* entries, stopping at limit when limit > 0.
RECURSIVE MemoryFilter(_, _, _, _, _)
MemoryFilter(list, i, query, limit, results) ==
    IF i < 1 THEN results
    ELSE IF MemoryMatchesQuery(list[i], query)
         THEN LET r == Append(results, list[i])
              IN  IF limit > 0 /\ Len(r) >= limit THEN r
                  ELSE MemoryFilter(list, i - 1, query, limit, r)
         ELSE MemoryFilter(list, i - 1, query, limit, results)

\* MemoryStore.GetAlerts.
MemoryGetAlertsQuery(list, query, limit) ==
    IF query = s_empty THEN MemoryGetAlerts(list, limit)
    ELSE MemoryFilter(list, Len(list), query, limit, << >>)

\* ---------------------------------------------- pkg/alertstore/memberlist

\* NewMemberlistStore: a limit <= 0 becomes 100.
DefaultLimit == 100

NewLimit(limit) == IF limit <= 0 THEN DefaultLimit ELSE limit

\* json.Marshal of an alertEntry or of the whole list; a buffer that is not one
\* of these does not unmarshal.
Marshal(v) == <<"json", v>>

Garbage == <<"garbage">>

Unmarshals(data) == Len(data) = 2 /\ data[1] = "json"

Unmarshal(data) == data[2]

\* The duplicate rule of NotifyMsg and MergeRemoteState: equal timestamps, and
\* an alertname label on both sides with equal values.
SameIdentity(existing, entry) ==
    /\ existing.timestamp = entry.timestamp
    /\ s_alertname \in DOMAIN existing.alert.labels
    /\ s_alertname \in DOMAIN entry.alert.labels
    /\ existing.alert.labels[s_alertname] = entry.alert.labels[s_alertname]

Held(list, entry) == \E i \in 1..Len(list) : SameIdentity(list[i], entry)

\* Variant: the list is trimmed one entry late.
PrependTrimLate(list, entry, limit) ==
    LET l == <<entry>> \o list
    IN  IF Len(l) > limit + 1 THEN SubSeq(l, 1, limit + 1) ELSE l

\* Variant: the entry is added behind the ones held.
AppendTrim(list, entry, limit) ==
    LET l == list \o <<entry>>
    IN  IF Len(l) > limit THEN SubSeq(l, 1, limit) ELSE l

\* Prepend and keep the first limit entries.
PrependTrim(list, entry, limit) ==
    LET l == <<entry>> \o list
    IN  IF Len(l) > limit THEN SubSeq(l, 1, limit) ELSE l

\* MergeRemoteState's loop: each remote entry not held by the list so far is appended.
RECURSIVE MergeAppend(_, _, _)
MergeAppend(list, remoteAlerts, i) ==
    IF i > Len(remoteAlerts) THEN list
    ELSE MergeAppend(IF Held(list, remoteAlerts[i]) THEN list
                     ELSE Append(list, remoteAlerts[i]),
                     remoteAlerts, i + 1)

NewestFirst(list) ==
    \A i \in 1..(Len(list) - 1) : list[i].timestamp >= list[i + 1].timestamp

Without(list, i) == SubSeq(list, 1, i - 1) \o SubSeq(list, i + 1, Len(list))

\* sort.Slice is not stable: any arrangement of the list that is in
\* non-increasing timestamp order (each begins with one of the newest entries).
RECURSIVE SortedArrangements(_)
SortedArrangements(list) ==
    IF list = << >> THEN {<< >>}
    ELSE UNION {{<<list[i]>> \o rest : rest \in SortedArrangements(Without(list, i))} :
                  i \in {j \in 1..Len(list) :
                            \A k \in 1..Len(list) : list[j].timestamp >= list[k].timestamp}}

Trim(list, limit) == IF Len(list) > limit THEN SubSeq(list, 1, limit) ELSE list

\* Variant: the merged list is trimmed without being sorted.
MergeResultsUnsorted(list, buf, limit) ==
    IF buf = << >> \/ ~Unmarshals(buf) THEN {list}
    ELSE {Trim(MergeAppend(list, Unmarshal(buf), 1), limit)}

\* MergeRemoteState on a store holding list: the lists it can leave. An empty
\* or undecodable buffer leaves list as it is.
MergeResults(list, buf, limit) ==
    IF buf = << >> \/ ~Unmarshals(buf) THEN {list}
    ELSE {Trim(sorted, limit) :
             sorted \in SortedArrangements(MergeAppend(list, Unmarshal(buf), 1))}

\* MemberlistStore.GetAlerts with an empty query.
RECURSIVE MemberlistCollect(_, _, _, _)
MemberlistCollect(list, i, limit, result) ==
    IF ~(i < limit /\ i < Len(list)) THEN result
    ELSE MemberlistCollect(list, i + 1, limit, Append(result, list[i + 1]))

\* Variant: a limit <= 0 is taken as it comes.
MemberlistGetAlertsNoDefault(list, limit) ==
    LET lim == IF limit > Len(list) THEN Len(list) ELSE limit
    IN  MemberlistCollect(list, 0, lim, << >>)

MemberlistGetAlerts(list, limit) ==
    LET lim == IF limit <= 0 \/ limit > Len(list) THEN Len(list) ELSE limit
    IN  MemberlistCollect(list, 0, lim, << >>)

\* MemberlistStore.alertMatchesQuery; GetAlerts hands it the lowered query.
MemberlistMatchesQuery(entry, query) ==
    \/ Contains(ToLower(entry.status), query)
    \/ /\ s_alertname \in DOMAIN entry.alert.labels
       /\ Contains(ToLower(entry.alert.labels[s_alertname]), query)
    \/ AnyValueContains(entry.alert.labels, query)
    \/ AnyValueContains(AnnotationsOf(entry.alert), query)
    \/ JobInfoContains(entry.jobInfo, query)

\* MemberlistStore.GetAlerts with a query: the matching entries in list order;
\* the loop ends once the result holds limit entries.
RECURSIVE MemberlistFilter(_, _, _, _, _)
MemberlistFilter(list, i, query, limit, result) ==
    IF i > Len(list) THEN result
    ELSE LET r == IF MemberlistMatchesQuery(list[i], query)
                  THEN Append(result, list[i]) ELSE result
         IN  IF Len(r) >= limit THEN r
             ELSE MemberlistFilter(list, i + 1, query, limit, r)

\* MemberlistStore.GetAlerts.
MemberlistGetAlertsQuery(list, query, limit) ==
    IF query = s_empty THEN MemberlistGetAlerts(list, limit)
    ELSE LET lim == IF limit <= 0 \/ limit > Len(list) THEN Len(list) ELSE limit
         IN  MemberlistFilter(list, 1, ToLower(query), lim, << >>)

\* What a call returns: nil, or the error SaveAlertWithJobInfo wraps.
ErrNone == "nil"

ErrMarshal == "failed to marshal alert"

ErrCreate == "failed to create memberlist"

\* Variant: a failed join makes Initialize fail.
InitializeFailsOnJoin(createErr, joinErr) ==
    IF createErr THEN ErrCreate ELSE IF joinErr THEN "failed to join cluster" ELSE ErrNone

\* What MemberlistStore.Initialize returns; createErr: memberlist.Create fails,
\* joinErr: Join fails.
InitializeReturns(createErr, joinErr) == IF createErr THEN ErrCreate ELSE ErrNone

\* Variant: a broadcast invalidates every other one.
InvalidatesAll(b, other) == TRUE

\* broadcast.Invalidates.
Invalidates(b, other) == FALSE

\* TransmitLimitedQueue.QueueBroadcast: the queued broadcasts b invalidates are
\* dropped, and b is queued.
QueueBroadcast(queue, b) == {other \in queue : ~Invalidates(b, other)} \cup {b}

\* Variant: the entry is queued before the marshal error is looked at.
SaveQueuesFirst(queue, entry, marshalErr, members) ==
    IF members > 0 THEN QueueBroadcast(queue, Marshal(entry)) ELSE queue

\* The queue after SaveAlertWithJobInfo: a marshal error returns before the
\* broadcast, and a store without memberlist skips it.
SaveQueues(queue, entry, marshalErr, members) ==
    IF ~marshalErr /\ members > 0 THEN QueueBroadcast(queue, Marshal(entry)) ELSE queue

\* sync.RWMutex.Lock returns once no goroutine holds the lock.
Free(holder) == holder = Nil

Min(a, b) == IF a < b THEN a ELSE b

Nodes == {"A", "B"}

VARIABLES
    mlAlerts,   \* per node: MemberlistStore.alerts
    limit,      \* MemberlistStore.limit, the same on every node
    ml,         \* per node: s.ml.NumMembers() (0: s.ml and s.broadcasts are nil)
    broadcasts, \* per node: the messages queued in s.broadcasts
    calls,      \* the entries of the save calls a store driver has issued, in order
    storeType,  \* --alertStoreType: "memory" or "memberlist"
    alertStoreSize, \* --alertStoreSize
    input,      \* the arguments of a function applied on its own
    output,     \* its result (Nil before the call)
    now,        \* the wall clock time.Now() reads
    crashed,    \* an unrecovered panic in a goroutine has ended the process
    spawned,    \* dispatch goroutines started so far
    disp,       \* per dispatch goroutine: position, arguments, locals, call counts
    apiJobs,    \* the jobs held by the cluster (Clientset.BatchV1().Jobs)
    JobStore,   \* client.JobStore: the job informer's index
    alerts,     \* MemoryStore.alerts
    maxSize,    \* MemoryStore.maxSize
    httpStatus, \* the status code of the last webhook response (0: none yet)
    metrics,    \* metadata: the counters JobsCreatedTotal, JobsSucceededTotal, JobsFailedTotal
    mutex,      \* the store's mutex: Nil, or the goroutine holding the write lock
    writers     \* per goroutine writing to the store on its own: position, call, locals

vars == <<mlAlerts, limit, ml, broadcasts, calls, storeType, alertStoreSize, input, output,
          now, crashed, spawned, disp, apiJobs, JobStore, alerts, maxSize, httpStatus,
          metrics, mutex, writers>>

dispatchVars == <<crashed, spawned, disp, apiJobs, JobStore, httpStatus, metrics>>

replVars == <<mlAlerts, limit, ml, broadcasts, calls, storeType, alertStoreSize>>

fnVars == <<input, output>>

lockVars == <<mutex, writers>>

Writers == 1..MaxWriters

IdleWriter == [pc |-> "done", op |-> "none", arg |-> Nil, entry |-> Nil, local |-> Nil]

\* No goroutine writes to the store on its own; the operations of the other
\* specifications hold the lock from their first to their last touch of the list.
LockInit ==
    /\ mutex = Nil
    /\ writers = [w \in Writers |-> IdleWriter]

Dispatches == 1..MaxDispatch

\* metadata: the three counters, as registered.
NoMetrics == [created |-> 0, succeeded |-> 0, failed |-> 0]

IdleDispatch ==
    [pc |-> "idle", outcome |-> "none", alert |-> AlertCpu, status |-> s_empty,
     groupKey |-> s_empty, jobObject |-> Nil, creates |-> 0, saves |-> 0]


\* No node of the replicated store takes part in the dispatch specifications.
ReplInit ==
    /\ mlAlerts = [n \in Nodes |-> << >>]
    /\ ml = [n \in Nodes |-> 0]
    /\ broadcasts = [n \in Nodes |-> {}]
    /\ calls = << >>

\* No function is applied on its own.
FnInit ==
    /\ input = Nil
    /\ output = Nil

\* The server as main starts it for the dispatch specifications: a local store
\* of capacity DispatchCap, an empty cluster, no request served yet.
ServerInit ==
    /\ storeType = "memory"
    /\ alertStoreSize = DispatchCap
    /\ limit = NewLimit(DispatchCap)
    /\ now = 0
    /\ crashed = FALSE
    /\ spawned = 0
    /\ disp = [d \in Dispatches |-> IdleDispatch]
    /\ apiJobs = NilMap
    /\ JobStore = NilMap
    /\ alerts = << >>
    /\ maxSize = DispatchCap
    /\ LockInit
    /\ httpStatus = 0
    /\ metrics = NoMetrics

Init ==
    /\ ReplInit
    /\ FnInit
    /\ ServerInit

\* ------------------------------------------------------- the alert store

\* services.SaveAlert / services.SaveAlertWithJobInfo on the MemoryStore the
\* server was built with: the entry is stamped and appended. A store of
\* capacity 0 indexes s.alerts[-1] and panics.
StoreSaves(alert, status, jobInfo) ==
    IF maxSize <= 0
    THEN /\ crashed' = TRUE
         /\ UNCHANGED alerts
    ELSE /\ alerts' = MemoryAppend(alerts, Entry(alert, status, now, jobInfo), maxSize)
         /\ UNCHANGED crashed

\* ------------------------------------------------------- pkg/handlers

Batches(as, n) == UNION {[1..k -> as] : k \in 0..n}

\* POST /alerts with a body json cannot decode into a HookMessage.
AlertsPostHandlerMalformed ==
    /\ ~crashed
    /\ httpStatus' = 400
    /\ UNCHANGED <<now, crashed, spawned, disp, apiJobs, JobStore, alerts, maxSize, lockVars>>
    /\ UNCHANGED <<metrics, replVars, fnVars>>

\* Variant: the handler answers 409 when the index holds an active job of the group.
AlertsPostHandlerConflict(message) ==
    LET status == SanitizeInput(message.status)
        n == Len(message.alerts)
    IN  /\ ~crashed
        /\ spawned + n <= MaxDispatch
        /\ httpStatus' = IF message.groupKey # s_empty
                           /\ checkExistingJobByGroupKey(JobStore, message.groupKey)
                        THEN 409 ELSE 200
        /\ IF ~CheckAlertStatus(status)
           THEN UNCHANGED <<spawned, disp>>
           ELSE /\ spawned' = spawned + n
                /\ disp' = [d \in Dispatches |->
                              IF d > spawned /\ d <= spawned + n
                              THEN [IdleDispatch EXCEPT
                                      !.pc = "dedup",
                                      !.alert = message.alerts[d - spawned],
                                      !.status = status,
                                      !.groupKey = message.groupKey]
                              ELSE disp[d]]
        /\ UNCHANGED <<now, crashed, apiJobs, JobStore, alerts, maxSize, lockVars>>
        /\ UNCHANGED <<metrics, replVars, fnVars>>

\* POST /alerts with a decodable body: one goroutine per alert of the batch.
AlertsPostHandler(message) ==
    LET status == SanitizeInput(message.status)
        n == Len(message.alerts)
    IN  /\ ~crashed
        /\ spawned + n <= MaxDispatch
        /\ httpStatus' = 200
        /\ IF ~CheckAlertStatus(status)
           THEN UNCHANGED <<spawned, disp>>
           ELSE /\ spawned' = spawned + n
                /\ disp' = [d \in Dispatches |->
                              IF d > spawned /\ d <= spawned + n
                              THEN [IdleDispatch EXCEPT
                                      !.pc = "dedup",
                                      !.alert = message.alerts[d - spawned],
                                      !.status = status,
                                      !.groupKey = message.groupKey]
                              ELSE disp[d]]
        /\ UNCHANGED <<now, crashed, apiJobs, JobStore, alerts, maxSize, lockVars>>
        /\ UNCHANGED <<metrics, replVars, fnVars>>

\* ------------------------------------------- services.CreateResponseJob

alertnameOf(alert) == SanitizeInput(MapGet(alert.labels, s_alertname))

responsesConfigmap(alert, status) ==
    ToLower(s_openfero_dash \o alertnameOf(alert) \o s_dash \o status)

JobKey(name) == s_ns \o s_slash \o name

\* The dispatch records the alert and returns: the goroutine ends and its
\* arguments and locals are gone.
Finish(d, outcome, jobInfo, creates) ==
    /\ StoreSaves(disp[d].alert, disp[d].status, jobInfo)
    /\ disp' = [disp EXCEPT ![d] = [IdleDispatch EXCEPT
                                      !.pc = "done", !.outcome = outcome,
                                      !.saves = disp[d].saves + 1,
                                      !.creates = disp[d].creates + creates]]

\* Variant: only a firing alert is checked against the index.
DedupCheckFiringOnly(d) ==
    /\ ~crashed
    /\ disp[d].pc = "dedup"
    /\ IF disp[d].groupKey # s_empty
          /\ disp[d].status = s_firing
          /\ checkExistingJobByGroupKey(JobStore, disp[d].groupKey)
       THEN Finish(d, "DedupSkip", Nil, 0)
       ELSE /\ disp' = [disp EXCEPT ![d].pc = "resolve"]
            /\ UNCHANGED <<alerts, crashed>>
    /\ UNCHANGED <<now, spawned, apiJobs, JobStore, maxSize, lockVars, httpStatus, metrics>>
    /\ UNCHANGED <<replVars, fnVars>>

\* Variant: without a group key the check goes by any active job of the index.
DedupCheckAnyKey(d) ==
    /\ ~crashed
    /\ disp[d].pc = "dedup"
    /\ IF IF disp[d].groupKey # s_empty
          THEN checkExistingJobByGroupKey(JobStore, disp[d].groupKey)
          ELSE \E key \in DOMAIN JobStore : IsActive(JobStore[key])
       THEN Finish(d, "DedupSkip", Nil, 0)
       ELSE /\ disp' = [disp EXCEPT ![d].pc = "resolve"]
            /\ UNCHANGED <<alerts, crashed>>
    /\ UNCHANGED <<now, spawned, apiJobs, JobStore, maxSize, lockVars, httpStatus, metrics>>
    /\ UNCHANGED <<replVars, fnVars>>

\* Lines 99-110: the dedup check against the index.
DedupCheck(d) ==
    /\ ~crashed
    /\ disp[d].pc = "dedup"
    /\ IF disp[d].groupKey # s_empty
          /\ checkExistingJobByGroupKey(JobStore, disp[d].groupKey)
       THEN Finish(d, "DedupSkip", Nil, 0)
       ELSE /\ disp' = [disp EXCEPT ![d].pc = "resolve"]
            /\ UNCHANGED <<alerts, crashed>>
    /\ UNCHANGED <<now, spawned, apiJobs, JobStore, maxSize, lockVars, httpStatus, metrics>>
    /\ UNCHANGED <<replVars, fnVars>>

\* Variant: an empty entry yields an empty job.
GetJobFromConfigMapLenient(configMap, alertname, randomstring) ==
    LET doc == MapGet(configMap.data, alertname)
    IN  IF doc = Malformed THEN Nil
        ELSE IF doc = s_empty
        THEN <<JobDoc(s_dash \o randomstring, NilMap, Nil, << >>)>>
        ELSE <<[doc[1] EXCEPT !.name = @ \o s_dash \o randomstring]>>

\* GetJobFromConfigMap: Nil for an error, else the job named with a suffix.
GetJobFromConfigMap(configMap, alertname, randomstring) ==
    LET doc == MapGet(configMap.data, alertname)
    IN  IF doc = s_empty \/ doc = Malformed THEN Nil
        ELSE <<[doc[1] EXCEPT !.name = @ \o s_dash \o randomstring]>>

\* Variant: the TTL is left as the template has it.
DecorateWithoutTTL(jobObject, alert, groupKey) ==
    LET j1 == AddLabelsAsEnvVars(jobObject, alert)
        j3 == IF ~CheckJobLabels(j1, LabelSelector)
              THEN AddJobLabels(j1, LabelSelector) ELSE j1
    IN  AddGroupKeyLabel(j3, groupKey)

\* Variant: the TTL is set whether or not the template has one.
DecorateForcesTTL(jobObject, alert, groupKey) ==
    LET j1 == AddLabelsAsEnvVars(jobObject, alert)
        j2 == AddJobTTL(j1)
        j3 == IF ~CheckJobLabels(j2, LabelSelector)
              THEN AddJobLabels(j2, LabelSelector) ELSE j2
    IN  AddGroupKeyLabel(j3, groupKey)

\* Variant: the ownership labels are left as the template has them.
DecorateWithoutLabels(jobObject, alert, groupKey) ==
    LET j1 == AddLabelsAsEnvVars(jobObject, alert)
        j2 == IF ~CheckJobTTL(j1) THEN AddJobTTL(j1) ELSE j1
    IN  AddGroupKeyLabel(j2, groupKey)

\* Variant: the job is submitted without the group-key label.
DecorateWithoutGroupKey(jobObject, alert, groupKey) ==
    LET j1 == AddLabelsAsEnvVars(jobObject, alert)
        j2 == IF ~CheckJobTTL(j1) THEN AddJobTTL(j1) ELSE j1
    IN  IF ~CheckJobLabels(j2, LabelSelector) THEN AddJobLabels(j2, LabelSelector) ELSE j2

\* Lines 147-168: env vars, TTL, ownership labels, group-key label.
Decorate(jobObject, alert, groupKey) ==
    LET j1 == AddLabelsAsEnvVars(jobObject, alert)
        j2 == IF ~CheckJobTTL(j1) THEN AddJobTTL(j1) ELSE j1
        j3 == IF ~CheckJobLabels(j2, LabelSelector)
              THEN AddJobLabels(j2, LabelSelector) ELSE j2
    IN  AddGroupKeyLabel(j3, groupKey)

\* AddLabelsAsEnvVars indexes Containers[0] once per alert label.
DecoratePanics(jobObject, alert) ==
    jobObject.containers = << >> /\ DOMAIN alert.labels # {}

\* Lines 112-168: template resolution and decoration.
Resolve(d, err, randomstring) ==
    LET key == JobKey(responsesConfigmap(disp[d].alert, disp[d].status))
        got == IF err \/ key \notin DOMAIN ConfigMapStore THEN Nil
               ELSE GetJobFromConfigMap(ConfigMapStore[key],
                                        alertnameOf(disp[d].alert), randomstring)
    IN  /\ ~crashed
        /\ disp[d].pc = "resolve"
        /\ IF got = Nil
           THEN Finish(d, "TemplateMissing", Nil, 0)
           ELSE IF DecoratePanics(got[1], disp[d].alert)
           THEN /\ crashed' = TRUE
                /\ disp' = [disp EXCEPT ![d].pc = "panic", ![d].outcome = "Panicked"]
                /\ UNCHANGED alerts
           ELSE /\ disp' = [disp EXCEPT
                              ![d].pc = "submit",
                              ![d].jobObject =
                                  <<Decorate(got[1], disp[d].alert, disp[d].groupKey)>>]
                /\ UNCHANGED <<alerts, crashed>>
        /\ UNCHANGED <<now, spawned, apiJobs, JobStore, maxSize, lockVars, httpStatus, metrics>>
        /\ UNCHANGED <<replVars, fnVars>>

\* The cluster refuses a name it holds and a pod template without containers.
ApiRejects(jobObject) ==
    \/ JobKey(jobObject.name) \in DOMAIN apiJobs
    \/ jobObject.containers = << >>

\* Variant: the job is created without asking the index first.
CreateRemediationJobUnchecked(jobObject, getErr, createErr) ==
    IF createErr \/ ApiRejects(jobObject) THEN "failed"
    ELSE "created"

\* Variant: the existence check goes by the group-key label, not by the name.
CreateRemediationJobByLabel(jobObject, getErr, createErr) ==
    IF getErr \/ \E k \in DOMAIN JobStore :
                    /\ s_groupKeyLabel \in DOMAIN jobObject.labels
                    /\ HasGroupKeyLabel(JobStore[k], jobObject.labels[s_groupKeyLabel])
    THEN "none"
    ELSE IF createErr \/ ApiRejects(jobObject) THEN "failed"
    ELSE "created"

\* Client.CreateRemediationJob: "none" when the exact-name check against the
\* index stops it, else the result of the create call it issues.
CreateRemediationJob(jobObject, getErr, createErr) ==
    IF getErr \/ JobKey(jobObject.name) \in DOMAIN JobStore THEN "none"
    ELSE IF createErr \/ ApiRejects(jobObject) THEN "failed"
    ELSE "created"

JobInfoOf(d) ==
    <<[configMapName |-> responsesConfigmap(disp[d].alert, disp[d].status),
       jobName |-> disp[d].jobObject[1].name,
       image |-> disp[d].jobObject[1].containers[1]]>>

\* Lines 170-197: submission and the record of its result.
Submit(d, getErr, createErr) ==
    LET jobObject == disp[d].jobObject[1]
        res == CreateRemediationJob(jobObject, getErr, createErr)
    IN  /\ ~crashed
        /\ disp[d].pc = "submit"
        /\ IF res = "created"
           THEN /\ apiJobs' = (JobKey(jobObject.name) :> jobObject) @@ apiJobs
                /\ metrics' = [metrics EXCEPT !.created = @ + 1]
                /\ Finish(d, "Submitted", JobInfoOf(d), 1)
           ELSE /\ metrics' = [metrics EXCEPT !.failed = @ + 1]
                /\ Finish(d, "SubmitFailed", Nil, IF res = "failed" THEN 1 ELSE 0)
                /\ UNCHANGED apiJobs
        /\ UNCHANGED <<now, spawned, JobStore, maxSize, lockVars, httpStatus>>
        /\ UNCHANGED <<replVars, fnVars>>

\* ------------------------------------------ the cluster and the informer

\* The informer lists and watches the jobs the label selector matches.
Selected(jobs) ==
    [k \in {x \in DOMAIN jobs : CheckJobLabels(jobs[x], LabelSelector)} |-> jobs[k]]

\* The jobs an informer event adds to the index (AddFunc).
Added(old, new) == DOMAIN new \ DOMAIN old

\* The jobs an informer event updates in the index whose count (succeeded or
\* failed) was 0 in the old object and is positive in the new one (UpdateFunc).
Turned(old, new, count) ==
    {k \in DOMAIN old \cap DOMAIN new : old[k][count] = 0 /\ new[k][count] > 0}

\* The informer catches up with the cluster; its event handlers count.
InformerSync ==
    /\ ~crashed
    /\ JobStore # Selected(apiJobs)
    /\ JobStore' = Selected(apiJobs)
    /\ metrics' = [created |-> metrics.created + Cardinality(Added(JobStore, JobStore')),
                   succeeded |-> metrics.succeeded
                                 + Cardinality(Turned(JobStore, JobStore', "succeeded")),
                   failed |-> metrics.failed
                              + Cardinality(Turned(JobStore, JobStore', "failed"))]
    /\ UNCHANGED <<now, crashed, spawned, disp, apiJobs, alerts, maxSize, lockVars, httpStatus>>
    /\ UNCHANGED <<replVars, fnVars>>

\* The job controller starts the job's pod.
JobStart(k) ==
    /\ apiJobs[k].active = 0 /\ apiJobs[k].succeeded = 0 /\ apiJobs[k].failed = 0
    /\ apiJobs' = [apiJobs EXCEPT ![k].active = 1]
    /\ UNCHANGED <<now, crashed, spawned, disp, JobStore, alerts, maxSize, lockVars, httpStatus, metrics>>
    /\ UNCHANGED <<replVars, fnVars>>

\* The pod ends: the job has succeeded or failed.
JobEnd(k, ok) ==
    /\ apiJobs[k].active > 0
    /\ apiJobs' = [apiJobs EXCEPT ![k].active = 0,
                                  ![k].succeeded = IF ok THEN 1 ELSE @,
                                  ![k].failed = IF ok THEN @ ELSE 1]
    /\ UNCHANGED <<now, crashed, spawned, disp, JobStore, alerts, maxSize, lockVars, httpStatus, metrics>>
    /\ UNCHANGED <<replVars, fnVars>>

\* The decodable webhook bodies with at most n alerts.
Messages(keys, as, n) ==
    [groupKey : keys, status : RawStatuses, alerts : Batches(as, n)]

\* Every goroutine spawned so far has returned.
AllDone == \A d \in Dispatches : disp[d].pc \in {"idle", "done"}

\* Concurrent dispatches: batches of any size, at any time.
Next ==
    \/ \E message \in Messages(NarrowGroupKeys, NarrowAlerts, MaxDispatch - spawned) :
            AlertsPostHandler(message)
    \/ \E d \in Dispatches : DedupCheck(d)
    \/ \E d \in Dispatches, err \in BOOLEAN, sfx \in Suffixes : Resolve(d, err, sfx)
    \/ \E d \in Dispatches, getErr \in BOOLEAN, createErr \in BOOLEAN :
            Submit(d, getErr, createErr)
    \/ InformerSync
    \/ \E k \in DOMAIN apiJobs : JobStart(k)
    \/ \E k \in DOMAIN apiJobs, ok \in BOOLEAN : JobEnd(k, ok)

Spec == Init /\ [][Next]_vars

\* One dispatch at a time: a webhook carries at most one alert and arrives after
\* the dispatch of the one before it has returned. The index still lags.
NextSeq ==
    \/ /\ AllDone
       /\ \E message \in Messages(NarrowGroupKeys, NarrowAlerts,
                                   Min(1, MaxDispatch - spawned)) :
            AlertsPostHandler(message)
    \/ \E d \in Dispatches : DedupCheck(d)
    \/ \E d \in Dispatches, err \in BOOLEAN, sfx \in Suffixes : Resolve(d, err, sfx)
    \/ \E d \in Dispatches, getErr \in BOOLEAN, createErr \in BOOLEAN :
            Submit(d, getErr, createErr)
    \/ InformerSync
    \/ \E k \in DOMAIN apiJobs : JobStart(k)
    \/ \E k \in DOMAIN apiJobs, ok \in BOOLEAN : JobEnd(k, ok)

SpecSeq == Init /\ [][NextSeq]_vars

\* A single webhook of at most one alert, drawn from every input of the model.
NextOne ==
    \/ spawned = 0 /\ httpStatus = 0 /\ AlertsPostHandlerMalformed
    \/ /\ spawned = 0 /\ httpStatus = 0
       /\ \E message \in Messages(GroupKeys, Alerts, 1) : AlertsPostHandler(message)
    \/ \E d \in Dispatches : DedupCheck(d)
    \/ \E d \in Dispatches, err \in BOOLEAN, sfx \in Suffixes : Resolve(d, err, sfx)
    \/ \E d \in Dispatches, getErr \in BOOLEAN, createErr \in BOOLEAN :
            Submit(d, getErr, createErr)
    \/ InformerSync
    \/ \E k \in DOMAIN apiJobs : JobStart(k)
    \/ \E k \in DOMAIN apiJobs, ok \in BOOLEAN : JobEnd(k, ok)

SpecOne == Init /\ [][NextOne]_vars

\* ------------------------------------------------- the stores on their own

\* What a driver of the store saves.
StoreAlerts == {AlertCpu, AlertNoName}

JobInfos == {Nil, <<[configMapName |-> s_openfero_dash \o s_cpu \o s_dash \o s_firing,
                     jobName |-> s_fix \o s_dash \o s_sfxA,
                     image |-> s_img]>>}

\* main: the store is built from --alertStoreType and --alertStoreSize, and a
\* replicated store serves once Initialize has returned without error.
InitStore ==
    /\ storeType \in {"memory", "memberlist"}
    /\ FnInit
    /\ alertStoreSize \in 0..(IF storeType = "memory" THEN MaxSize ELSE MaxCap)
    /\ maxSize = alertStoreSize
    /\ LockInit
    /\ limit = NewLimit(alertStoreSize)
    /\ mlAlerts = [n \in Nodes |-> << >>]
    /\ ml = [n \in Nodes |-> IF storeType = "memberlist" THEN Cardinality(Nodes) ELSE 0]
    /\ broadcasts = [n \in Nodes |-> {}]
    /\ calls = << >>
    /\ now = 0
    /\ crashed = FALSE
    /\ spawned = 0
    /\ disp = [d \in Dispatches |-> IdleDispatch]
    /\ apiJobs = NilMap
    /\ JobStore = NilMap
    /\ alerts = << >>
    /\ httpStatus = 0
    /\ metrics = NoMetrics

\* The wall clock advances.
Tick ==
    /\ now < MaxTime
    /\ now' = now + 1
    /\ UNCHANGED <<dispatchVars, alerts, maxSize, lockVars, replVars, fnVars>>

\* MemoryStore.SaveAlertWithJobInfo.
MemorySave(alert, status, jobInfo) ==
    /\ storeType = "memory"
    /\ ~crashed
    /\ Len(calls) < MaxLocalSaves
    /\ StoreSaves(alert, status, jobInfo)
    /\ calls' = Append(calls, Entry(alert, status, now, jobInfo))
    /\ UNCHANGED <<now, spawned, disp, apiJobs, JobStore, httpStatus, metrics, maxSize, lockVars>>
    /\ UNCHANGED <<mlAlerts, limit, ml, broadcasts, storeType, alertStoreSize, fnVars>>

\* MemberlistStore.SaveAlertWithJobInfo on node n; marshalErr: json.Marshal of
\* the entry fails. output is what the call returns.
MemberlistSave(n, alert, status, jobInfo, marshalErr) ==
    LET entry == Entry(alert, status, now, jobInfo)
    IN  /\ storeType = "memberlist"
        /\ Len(calls) < MaxSaves
        /\ mlAlerts' = [mlAlerts EXCEPT ![n] = PrependTrim(@, entry, limit)]
        /\ broadcasts' = [broadcasts EXCEPT ![n] = SaveQueues(@, entry, marshalErr, ml[n])]
        /\ output' = <<IF marshalErr THEN ErrMarshal ELSE ErrNone>>
        /\ calls' = Append(calls, entry)
        /\ UNCHANGED <<now, dispatchVars, alerts, maxSize, lockVars>>
        /\ UNCHANGED <<limit, ml, storeType, alertStoreSize, input>>

\* delegate.NotifyMsg on node n.
NotifyMsg(n, data) ==
    /\ storeType = "memberlist"
    /\ ml[n] > 0
    /\ IF data = << >> \/ ~Unmarshals(data) \/ Held(mlAlerts[n], Unmarshal(data))
       THEN UNCHANGED mlAlerts
       ELSE /\ mlAlerts' = [mlAlerts EXCEPT ![n] = PrependTrim(@, Unmarshal(data), limit)]
            /\ Len(mlAlerts'[n]) <= MaxList
    /\ UNCHANGED <<now, dispatchVars, alerts, maxSize, lockVars>>
    /\ UNCHANGED <<limit, ml, broadcasts, calls, storeType, alertStoreSize, fnVars>>

\* delegate.LocalState on node n.
LocalState(n) == Marshal(mlAlerts[n])

\* The length of the list MergeRemoteState sorts.
MergedLen(list, buf) ==
    IF buf = << >> \/ ~Unmarshals(buf) THEN Len(list)
    ELSE Len(MergeAppend(list, Unmarshal(buf), 1))

\* delegate.MergeRemoteState on node n.
MergeRemoteState(n, buf) ==
    /\ storeType = "memberlist"
    /\ ml[n] > 0
    /\ Min(MergedLen(mlAlerts[n], buf), limit) <= MaxList
    /\ \E result \in MergeResults(mlAlerts[n], buf, limit) :
          mlAlerts' = [mlAlerts EXCEPT ![n] = result]
    /\ UNCHANGED <<now, dispatchVars, alerts, maxSize, lockVars>>
    /\ UNCHANGED <<limit, ml, broadcasts, calls, storeType, alertStoreSize, fnVars>>

\* The other members of the cluster node n is in.
Peers(n) == {x \in Nodes : x # n /\ ml[n] > 1 /\ ml[x] > 1}

\* What reaches node n from the network: nothing, noise, or a peer's broadcast.
Incoming(n) ==
    {<< >>, Garbage} \cup UNION {broadcasts[m] : m \in Peers(n)}

\* The push/pull buffers node n is handed: nothing, noise, or a peer's state.
Snapshots(n) ==
    {<< >>, Garbage} \cup {LocalState(m) : m \in Peers(n)}

\* The entries saved here (strings and a time.Now() timestamp) marshal.
NextStore ==
    \/ Tick
    \/ \E alert \in StoreAlerts, jobInfo \in JobInfos : MemorySave(alert, s_firing, jobInfo)
    \/ \E n \in Nodes, alert \in StoreAlerts : MemberlistSave(n, alert, s_firing, Nil, FALSE)
    \/ \E n \in Nodes : \E data \in Incoming(n) : NotifyMsg(n, data)
    \/ \E n \in Nodes : \E buf \in Snapshots(n) : MergeRemoteState(n, buf)

SpecStore == InitStore /\ [][NextStore]_vars

\* =================================================================== claims

\* The non-empty group keys.
Keys == GroupKeys \ {s_empty}

\* job carries the label openfero.io/group-key = hash(g).
Labelled(job, g) ==
    /\ s_groupKeyLabel \in DOMAIN job.labels
    /\ job.labels[s_groupKeyLabel] = HashedKey[g]

\* active > 0, or neither succeeded nor failed.
Unresolved(job) == job.active > 0 \/ (job.succeeded = 0 /\ job.failed = 0)

\* The unresolved jobs of group g among jobs.
ActiveOf(jobs, g) == {k \in DOMAIN jobs : Labelled(jobs[k], g) /\ Unresolved(jobs[k])}

\* The dispatches of group g between their dedup check and their submission.
PastCheck(g) == {d \in Dispatches : disp[d].groupKey = g /\ disp[d].pc \in {"resolve", "submit"}}

\* d passes its dedup check in this step.
PassesCheck(d) == disp[d].pc = "dedup" /\ disp'[d].pc = "resolve"

\* ----------------------------------------------------------------------- C1

\* C1 as stated: in every reachable state, under any interleaving of concurrent
\* dispatches, the job store holds at most one active job (active > 0, or
\* neither succeeded nor failed) carrying a given non-empty hashed group-key label.
C1_AtMostOneActive ==
    \A g \in Keys : Cardinality(ActiveOf(apiJobs, g)) <= 1

\* The jobs of group g that are active or about to be submitted.
Budget(g) == Cardinality(ActiveOf(apiJobs, g)) + Cardinality(PastCheck(g))

\* C1 amended: the active jobs of a non-empty group key, together with its
\* dispatches that have passed the dedup check and not yet submitted, exceed one
\* only through a dispatch of that key passing its dedup check because the
\* Existing-Job Index showed no active job with the label at that moment; no
\* other step (submission, job start or end, informer update) takes them past one.
C1_ExceedsOnlyThroughStaleCheck ==
    [][\A g \in Keys :
          (Budget(g) <= 1 /\ Budget(g)' > 1) =>
              \E d \in Dispatches :
                  /\ disp[d].groupKey = g
                  /\ PassesCheck(d)
                  /\ ActiveOf(JobStore, g) = {}]_vars

\* Two active jobs of one group key side by side in the job store.
C1_Witness == \E g \in Keys : Cardinality(ActiveOf(apiJobs, g)) >= 2

\* ----------------------------------------------------------------------- C2

\* The record a dispatch appends when it saves alert and status without job info.
Appended(before, after, alert, status) ==
    /\ after # << >>
    /\ after[Len(after)] = [alert |-> alert, status |-> status,
                            timestamp |-> now, jobInfo |-> Nil]
    /\ IF Len(before) < maxSize
       THEN SubSeq(after, 1, Len(after) - 1) = before
       ELSE SubSeq(after, 1, Len(after) - 1) = Tail(before)

\* C2: if the Existing-Job Index holds an active job labelled with
\* hash(groupKey), the dedup check of a dispatch with that non-empty groupKey
\* ends the dispatch: it has issued zero create calls, the job store is
\* unchanged, and it has appended exactly one new record, without job info.
C2_DedupHit ==
    [][\A d \in Dispatches :
          (/\ disp[d].pc = "dedup"
           /\ disp[d].groupKey # s_empty
           /\ ActiveOf(JobStore, disp[d].groupKey) # {}
           /\ disp'[d] # disp[d])
          => /\ disp'[d].pc = "done"
             /\ disp'[d].outcome = "DedupSkip"
             /\ disp'[d].creates = 0
             /\ disp'[d].saves = 1
             /\ apiJobs' = apiJobs
             /\ Appended(alerts, alerts', disp[d].alert, disp[d].status)]_vars

\* A dispatch ended by a dedup hit, its record in the store.
C2_Witness ==
    \E d \in Dispatches :
        /\ disp[d].pc = "done" /\ disp[d].outcome = "DedupSkip"
        /\ disp[d].creates = 0 /\ disp[d].saves = 1
        /\ alerts # << >> /\ alerts[Len(alerts)].jobInfo = Nil
        /\ \E g \in Keys : ActiveOf(JobStore, g) # {}

\* ----------------------------------------------------------------------- C3

\* The jobs of group g among jobs, whatever their status.
JobsOf(jobs, g) == {k \in DOMAIN jobs : Labelled(jobs[k], g)}

\* d's submission creates a job in this step.
Creates(d) == disp[d].pc = "submit" /\ disp'[d].pc = "done" /\ apiJobs' # apiJobs

\* C3 as stated, dispatches running one after the other: the first dispatch of a
\* non-empty groupKey creates exactly one job carrying the label
\* openfero.io/group-key = hash(groupKey), and a dispatch of the same groupKey
\* that starts after that submission returned, while the job is still active,
\* creates no job.
C3_SecondCreatesNone ==
    [][\A d \in Dispatches :
          (Creates(d) /\ disp[d].groupKey # s_empty) =>
              /\ ActiveOf(apiJobs, disp[d].groupKey) = {}
              /\ \E k \in DOMAIN apiJobs' \ DOMAIN apiJobs :
                    /\ DOMAIN apiJobs' = DOMAIN apiJobs \cup {k}
                    /\ Labelled(apiJobs'[k], disp[d].groupKey)]_vars

\* C3 amended: a dispatch with non-empty groupKey whose submission succeeds
\* creates exactly one job, carrying the label openfero.io/group-key =
\* hash(groupKey) (one create call); a later dispatch of the same groupKey whose
\* dedup check runs when the Existing-Job Index shows that job as active
\* creates no job, so the jobs of the group stay as they were.
C3_SecondCreatesNoneOnceIndexed ==
    [][\A d \in Dispatches :
          /\ (Creates(d) /\ disp[d].groupKey # s_empty) =>
                /\ disp'[d].creates = 1
                /\ \E k \in DOMAIN apiJobs' \ DOMAIN apiJobs :
                      /\ DOMAIN apiJobs' = DOMAIN apiJobs \cup {k}
                      /\ \A x \in DOMAIN apiJobs : apiJobs'[x] = apiJobs[x]
                      /\ Labelled(apiJobs'[k], disp[d].groupKey)
          /\ (/\ disp[d].pc = "dedup" /\ disp'[d] # disp[d]
              /\ disp[d].groupKey # s_empty
              /\ \E k \in ActiveOf(JobStore, disp[d].groupKey) :
                    k \in ActiveOf(apiJobs, disp[d].groupKey)) =>
                /\ JobsOf(apiJobs', disp[d].groupKey) = JobsOf(apiJobs, disp[d].groupKey)
                /\ disp'[d].creates = 0
                /\ disp'[d].pc \notin {"resolve", "submit"}]_vars

\* The first dispatch has created the job of the group, the second one has been
\* skipped, and the job store holds that one job, still active.
C3_Witness ==
    \E g \in Keys :
        /\ disp[1].outcome = "Submitted" /\ disp[1].creates = 1
        /\ disp[2].outcome = "DedupSkip" /\ disp[2].creates = 0
        /\ Cardinality(JobsOf(apiJobs, g)) = 1
        /\ Cardinality(ActiveOf(apiJobs, g)) = 1

\* ----------------------------------------------------------------------- C4

\* The record at the newest end of the local store.
LastRecord == alerts[Len(alerts)]

\* C4 as stated, in its finite form: a spawned dispatch is either still on its
\* way with the process alive, or has returned having appended exactly one
\* record, which carries job info if and only if its create call succeeded.
C4_EveryDispatchRecords ==
    \A d \in Dispatches :
        disp[d].pc # "idle" =>
            \/ disp[d].pc \in {"dedup", "resolve", "submit"} /\ ~crashed
            \/ /\ disp[d].pc = "done"
               /\ disp[d].outcome \in {"DedupSkip", "TemplateMissing", "SubmitFailed", "Submitted"}
               /\ disp[d].saves = 1
               /\ alerts # << >>
               /\ (LastRecord.jobInfo # Nil) <=> (disp[d].outcome = "Submitted")
               /\ (disp[d].outcome = "Submitted") <=> (DOMAIN apiJobs # {})

\* ----------------------------------------------------------------------- C5

\* active = 0 and succeeded > 0, or active = 0 and failed > 0.
Completed(job) == job.active = 0 /\ (job.succeeded > 0 \/ job.failed > 0)

\* jobs holds jobs of group g, and every one of them has completed.
AllCompleted(jobs, g) ==
    /\ JobsOf(jobs, g) # {}
    /\ \A k \in JobsOf(jobs, g) : Completed(jobs[k])

\* C5 as stated: once the job labelled hash(groupKey) has completed in the job
\* store, the dedup check of a later dispatch with the same groupKey is not a
\* hit: the dispatch goes on to template resolution.
C5_CompletedIsNoHit ==
    [][\A d \in Dispatches :
          (/\ disp[d].pc = "dedup" /\ disp'[d] # disp[d]
           /\ disp[d].groupKey # s_empty
           /\ AllCompleted(apiJobs, disp[d].groupKey))
          => disp'[d].pc = "resolve"]_vars

\* C5 amended: once the Existing-Job Index shows the job labelled
\* hash(groupKey) as completed, the dedup check of a later dispatch with the
\* same groupKey is not a hit: the dispatch goes on to template resolution
\* without a record, and when resolution and submission succeed it adds a new
\* job of the group to the job store.
C5_CompletedInIndexIsNoHit ==
    [][\A d \in Dispatches :
          /\ (/\ disp[d].pc = "dedup" /\ disp'[d] # disp[d]
              /\ disp[d].groupKey # s_empty
              /\ AllCompleted(JobStore, disp[d].groupKey))
             => /\ disp'[d].pc = "resolve"
                /\ alerts' = alerts
          /\ (/\ disp[d].pc = "submit"
              /\ disp[d].groupKey # s_empty
              /\ disp'[d].outcome = "Submitted")
             => Cardinality(JobsOf(apiJobs', disp[d].groupKey))
                    = Cardinality(JobsOf(apiJobs, disp[d].groupKey)) + 1]_vars

\* A completed job of the group in the index and in the job store, and next to
\* it the job a later dispatch of the group has created.
C5_Witness ==
    \E g \in Keys :
        /\ AllCompleted(JobStore, g)
        /\ \E k \in JobsOf(apiJobs, g) : Completed(apiJobs[k])
        /\ ActiveOf(apiJobs, g) # {}
        /\ disp[2].outcome = "Submitted"

\* ----------------------------------------------------------------------- C6

\* The label maps of the jobs an index is filled with: none, the selector's
\* labels only, and the selector's labels with the group-key label of a key.
IndexLabels ==
    {NilMap, LabelSelector}
        \cup {(s_groupKeyLabel :> HashedKey[g]) @@ LabelSelector : g \in Keys}

\* Status counts: pending, running, succeeded, failed, failed with a pod running.
IndexStatuses == {<<0, 0, 0>>, <<1, 0, 0>>, <<0, 1, 0>>, <<0, 0, 1>>, <<1, 0, 1>>}

IndexJobs ==
    {[JobDoc(s_fix, labels, <<300>>, <<s_img>>) EXCEPT
         !.active = st[1], !.succeeded = st[2], !.failed = st[3]] :
        labels \in IndexLabels, st \in IndexStatuses}

\* The indexes of at most two jobs.
Indexes ==
    UNION {[names -> IndexJobs] :
             names \in SUBSET {JobKey(s_fix \o s_dash \o sfx) : sfx \in Suffixes}}

\* checkExistingJobByGroupKey on its own: any index, any group key.
InitCheck ==
    /\ ReplInit
    /\ ServerInit
    /\ input \in {<<[jobs |-> jobs, groupKey |-> g]>> : jobs \in Indexes, g \in GroupKeys}
    /\ output = Nil

CallCheck ==
    /\ input # Nil
    /\ output = Nil
    /\ output' = <<checkExistingJobByGroupKey(input[1].jobs, input[1].groupKey)>>
    /\ UNCHANGED <<input, now, dispatchVars, alerts, maxSize, lockVars, replVars>>

NextCheck == CallCheck

SpecCheck == InitCheck /\ [][NextCheck]_vars

\* C6: checkExistingJobByGroupKey(groupKey) returns true if and only if the
\* index holds some job whose openfero.io/group-key label equals hash(groupKey)
\* and whose status has active > 0 or (succeeded = 0 and failed = 0); a pending
\* job (all counts zero) with the label is a hit, and an index whose jobs carry
\* a different group-key label or none is never one.
C6_HitIffActiveLabelled ==
    output # Nil =>
        LET jobs == input[1].jobs
            h == HashGroupKey(input[1].groupKey)
            labelled(k) == /\ s_groupKeyLabel \in DOMAIN jobs[k].labels
                           /\ jobs[k].labels[s_groupKeyLabel] = h
        IN  /\ output[1] <=>
                  \E k \in DOMAIN jobs :
                      /\ labelled(k)
                      /\ \/ jobs[k].active > 0
                         \/ jobs[k].succeeded = 0 /\ jobs[k].failed = 0
            /\ (\E k \in DOMAIN jobs :
                   /\ labelled(k)
                   /\ jobs[k].active = 0 /\ jobs[k].succeeded = 0 /\ jobs[k].failed = 0)
               => output[1]
            /\ (\A k \in DOMAIN jobs : ~labelled(k)) => ~output[1]

\* The call has returned true on an index holding a pending job of the group
\* next to a job of another group.
C6_Witness ==
    /\ output = <<TRUE>>
    /\ \E k \in DOMAIN input[1].jobs :
          /\ Labelled(input[1].jobs[k], input[1].groupKey)
          /\ input[1].jobs[k].active = 0
          /\ input[1].jobs[k].succeeded = 0
          /\ input[1].jobs[k].failed = 0
    /\ \E k \in DOMAIN input[1].jobs, g \in Keys :
          g # input[1].groupKey /\ Labelled(input[1].jobs[k], g)

\* ------------------------------------------------ MergeRemoteState on its own

\* The records a list is filled with.
MergeRecords ==
    {Entry(alert, s_firing, t, Nil) : alert \in StoreAlerts, t \in 0..MaxTime}

Lists(n) == UNION {[1..k -> MergeRecords] : k \in 0..n}

\* A store of any capacity of the model holding any list within it, handed any
\* peer's list (or nothing, or noise): at most MaxMerge records in all.
MergeInputs ==
    UNION {{<<[alerts |-> local, buf |-> buf, limit |-> NewLimit(size)]>> :
               size \in {c \in 0..MaxCap : k <= NewLimit(c)},
               local \in [1..k -> MergeRecords],
               buf \in {<< >>, Garbage}
                         \cup {Marshal(remote) : remote \in Lists(MaxMerge - k)}} :
             k \in 0..MaxMerge}

InitMerge ==
    /\ ReplInit
    /\ ServerInit
    /\ input \in MergeInputs
    /\ output = Nil

CallMerge ==
    /\ input # Nil
    /\ output = Nil
    /\ \E result \in MergeResults(input[1].alerts, input[1].buf, input[1].limit) :
          output' = <<result>>
    /\ UNCHANGED <<input, now, dispatchVars, alerts, maxSize, lockVars, replVars>>

NextMerge == CallMerge

SpecMerge == InitMerge /\ [][NextMerge]_vars

\* ----------------------------------------------------------------------- C7

\* C7 as stated: in every reachable state of either backend the number of
\* stored records is at most the configured capacity.
C7_WithinConfiguredCapacity ==
    /\ storeType = "memory" => Len(alerts) <= alertStoreSize
    /\ storeType = "memberlist" => \A n \in Nodes : Len(mlAlerts[n]) <= alertStoreSize

\* C7 amended: in every reachable state of either backend, after any sequence
\* of saves, peer-broadcast receipts and snapshot merges, the number of stored
\* records is at most the capacity in force: the configured capacity, or 100 on
\* a replicated store configured with a capacity of 0 or less.
C7_WithinCapacityInForce ==
    /\ storeType = "memory" => Len(alerts) <= alertStoreSize
    /\ storeType = "memberlist" =>
          \A n \in Nodes :
              Len(mlAlerts[n]) <= (IF alertStoreSize <= 0 THEN 100 ELSE alertStoreSize)

\* A replicated node full to its configured capacity after more records than
\* that have been saved, one of them reaching it from its peer.
C7_Witness ==
    /\ storeType = "memberlist"
    /\ alertStoreSize >= 1
    /\ Len(calls) > alertStoreSize
    /\ \E n \in Nodes :
          /\ Len(mlAlerts[n]) = alertStoreSize
          /\ broadcasts[n] = {}
          /\ \E m \in Nodes : \E i \in 1..Len(mlAlerts[n]) :
                Marshal(mlAlerts[n][i]) \in broadcasts[m]

\* ----------------------------------------------------------------------- C8

\* C8: after C + k (k > 0) sequential saves into a local store of capacity C
\* the store holds exactly C records: the last C records saved, in the order
\* they were saved.
C8_LastCInOrder ==
    (storeType = "memory" /\ Len(calls) > maxSize) =>
        /\ Len(alerts) = maxSize
        /\ \A i \in 1..maxSize : alerts[i] = calls[Len(calls) - maxSize + i]

\* A local store of capacity C >= 1 after more than C saves of which the
\* evicted one differs from the ones kept.
C8_Witness ==
    /\ storeType = "memory"
    /\ maxSize >= 1
    /\ Len(calls) > maxSize
    /\ Len(alerts) = maxSize
    /\ \A i \in 1..Len(alerts) : alerts[i] # calls[1]

\* ----------------------------------------------------------------------- C9

\* The identity of a record: its timestamp and labels["alertname"].
Identity(entry) == <<entry.timestamp, MapGet(entry.alert.labels, s_alertname)>>

\* list followed by the records of snapshot whose identity it does not hold yet.
RECURSIVE WithNewIdentities(_, _, _)
WithNewIdentities(list, snapshot, i) ==
    IF i > Len(snapshot) THEN list
    ELSE WithNewIdentities(
             IF \E j \in 1..Len(list) : Identity(list[j]) = Identity(snapshot[i])
             THEN list ELSE Append(list, snapshot[i]),
             snapshot, i + 1)

Count(list, entry) == Cardinality({i \in 1..Len(list) : list[i] = entry})

Range(list) == {list[i] : i \in 1..Len(list)}

\* result is the first C elements of some ordering of all by timestamp descending.
FirstNewest(result, all, C) ==
    /\ Len(result) = Min(C, Len(all))
    /\ \A i \in 1..(Len(result) - 1) : result[i].timestamp >= result[i + 1].timestamp
    /\ \A e \in Range(result) : Count(result, e) <= Count(all, e)
    /\ \A e \in Range(all) :
          Count(result, e) < Count(all, e) =>
              \A i \in 1..Len(result) : result[i].timestamp >= e.timestamp

\* C9 as stated: after MergeRemoteState(snapshot) on a replicated store of
\* capacity C the stored list is the first C elements of the local records plus
\* the snapshot records whose (timestamp, alertname) identity was not present
\* yet, sorted by timestamp descending.
C9_MergeKeepsNewestC ==
    (output # Nil /\ Unmarshals(input[1].buf)) =>
        FirstNewest(output[1],
                    WithNewIdentities(input[1].alerts, Unmarshal(input[1].buf), 1),
                    input[1].limit)

\* ---------------------------------------------------------------------- C10

Limits == (0 - 1)..(MaxList + 1)

\* The length getAlerts("", lim) has on a store of count records.
LengthFor(lim, count) == IF lim > 0 THEN Min(lim, count) ELSE count

\* The i-th record of the store read from its newest end: the local store
\* appends, the replicated store prepends.
FromNewestEnd(i) ==
    IF storeType = "memory" THEN alerts[Len(alerts) + 1 - i] ELSE mlAlerts["A"][i]

Stored == IF storeType = "memory" THEN Len(alerts) ELSE Len(mlAlerts["A"])

\* getAlerts("", lim) on the store of the server (node A of a replicated store).
GetAlerts(lim) ==
    IF storeType = "memory" THEN MemoryGetAlerts(alerts, lim)
    ELSE MemberlistGetAlerts(mlAlerts["A"], lim)

AlertAnnotated ==
    [labels |-> (s_alertname :> s_cpu), annotations |-> (s_summary :> s_Disk_full)]

SearchAlerts == {AlertCpu, AlertDisk, AlertAnnotated}

SearchStatuses == {s_firing, s_FIRING}

\* The records of a searched store; Stamp gives each its time of saving.
SearchRecords ==
    {Entry(alert, status, 0, jobInfo) :
        alert \in SearchAlerts, status \in SearchStatuses, jobInfo \in JobInfos}

\* TestSearchFunctionality's four saves.
SearchScenario ==
    <<Entry([labels |-> (s_alertname :> s_TestAlert1)], s_firing, 0, Nil),
      Entry([labels |-> (s_alertname :> s_TestAlert2)], s_resolved, 0, Nil),
      Entry([labels |-> (s_alertname :> s_AnotherAlert)], s_FIRING, 0, Nil),
      Entry([labels |-> (s_alertname :> s_YetAnotherAlert)], s_RESOLVED, 0, Nil)>>

SearchLists ==
    {SearchScenario} \cup UNION {[1..k -> SearchRecords] : k \in 0..MaxSearch}

\* Saves in the order of the list, one per clock tick.
Stamp(list) == [i \in 1..Len(list) |-> [list[i] EXCEPT !.timestamp = i]]

Reverse(list) == [i \in 1..Len(list) |-> list[Len(list) + 1 - i]]

SearchQueries == {s_firing, s_FIRING, s_disk, s_img}

SearchLimits == {0, 1, SearchLimit}

\* A store of TestSearchFunctionality's capacity after the saves of a list (the
\* local store appends, the replicated one prepends), about to be searched.
InitSearch ==
    /\ storeType \in {"memory", "memberlist"}
    /\ alertStoreSize = SearchCap
    /\ maxSize = SearchCap
    /\ LockInit
    /\ limit = NewLimit(SearchCap)
    /\ \E list \in SearchLists :
          /\ alerts = IF storeType = "memory" THEN Stamp(list) ELSE << >>
          /\ mlAlerts = [n \in Nodes |->
                           IF storeType = "memberlist" /\ n = "A"
                           THEN Reverse(Stamp(list)) ELSE << >>]
    /\ ml = [n \in Nodes |-> IF storeType = "memberlist" THEN Cardinality(Nodes) ELSE 0]
    /\ broadcasts = [n \in Nodes |-> {}]
    /\ calls = << >>
    /\ input \in {<<[query |-> q, limit |-> l]>> : q \in SearchQueries, l \in SearchLimits}
    /\ output = Nil
    /\ now = 0
    /\ crashed = FALSE
    /\ spawned = 0
    /\ disp = [d \in Dispatches |-> IdleDispatch]
    /\ apiJobs = NilMap
    /\ JobStore = NilMap
    /\ httpStatus = 0
    /\ metrics = NoMetrics

\* MemoryStore.GetAlerts.
MemorySearch ==
    /\ storeType = "memory"
    /\ output = Nil
    /\ output' = <<MemoryGetAlertsQuery(alerts, input[1].query, input[1].limit)>>
    /\ UNCHANGED <<input, now, dispatchVars, alerts, maxSize, lockVars, replVars>>

\* MemberlistStore.GetAlerts on node A.
MemberlistSearch ==
    /\ storeType = "memberlist"
    /\ output = Nil
    /\ output' = <<MemberlistGetAlertsQuery(mlAlerts["A"], input[1].query, input[1].limit)>>
    /\ UNCHANGED <<input, now, dispatchVars, alerts, maxSize, lockVars, replVars>>

NextSearch == MemorySearch \/ MemberlistSearch

SpecSearch == InitSearch /\ [][NextSearch]_vars

\* ---------------------------------------------------------------------- C11

\* The records of the searched store, newest first.
SearchedNewestFirst == IF storeType = "memory" THEN Reverse(alerts) ELSE mlAlerts["A"]

\* q, compared case-insensitively, is a substring of the status, the alertname
\* label, a label value, an annotation value or a job-info field.
MatchesInsensitively(entry, q) ==
    LET lq == ToLower(q)
    IN  \/ Contains(ToLower(entry.status), lq)
        \/ \E k \in DOMAIN entry.alert.labels :
               Contains(ToLower(entry.alert.labels[k]), lq)
        \/ \E k \in DOMAIN AnnotationsOf(entry.alert) :
               Contains(ToLower(AnnotationsOf(entry.alert)[k]), lq)
        \/ /\ entry.jobInfo # Nil
           /\ \E f \in {"configMapName", "jobName", "image"} :
                  Contains(ToLower(entry.jobInfo[1][f]), lq)

\* C11: getAlerts(q, limit) with a non-empty q returns, newest first and
\* truncated to limit when limit > 0, exactly the stored records that q matches
\* case-insensitively in the status, a label value, an annotation value or a
\* job-info field; searching "firing" with limit 100 among the four saves with
\* statuses firing, resolved, FIRING, RESOLVED returns exactly 2 records.
C11_SearchIsCaseInsensitive ==
    output # Nil =>
        LET q == input[1].query
            lim == input[1].limit
            Hit(entry) == MatchesInsensitively(entry, q)
            hits == SelectSeq(SearchedNewestFirst, Hit)
        IN  /\ output[1] = IF lim > 0 THEN Trim(hits, lim) ELSE hits
            /\ NewestFirst(output[1])
            /\ (/\ Len(SearchedNewestFirst) = Len(SearchScenario)
                /\ q = s_firing
                /\ lim = SearchLimit) => Len(output[1]) = 2

\* ---------------------------------------------------------------------- C12

\* A save call has been issued in this step: its entry is the last of calls'.
SaveStep == Len(calls') = Len(calls) + 1

LastCall == calls'[Len(calls')]

\* C12: a save into a store holding n < capacity records leaves n + 1 records:
\* the records held before, unchanged and in their order, and the new record,
\* which carries the status given and comes first in getAlerts("", 0).
C12_SaveBelowCapacityAdds ==
    [][SaveStep =>
         IF storeType = "memory"
         THEN Len(alerts) < maxSize =>
                 /\ Len(alerts') = Len(alerts) + 1
                 /\ \A i \in 1..Len(alerts) : alerts'[i] = alerts[i]
                 /\ alerts'[Len(alerts')] = LastCall
                 /\ MemoryGetAlerts(alerts', 0) = <<LastCall>> \o MemoryGetAlerts(alerts, 0)
         ELSE \E n \in Nodes :
                 /\ \A m \in Nodes \ {n} : mlAlerts'[m] = mlAlerts[m]
                 /\ Len(mlAlerts[n]) < limit =>
                       /\ Len(mlAlerts'[n]) = Len(mlAlerts[n]) + 1
                       /\ \A i \in 1..Len(mlAlerts[n]) : mlAlerts'[n][i + 1] = mlAlerts[n][i]
                       /\ mlAlerts'[n][1] = LastCall
                       /\ MemberlistGetAlerts(mlAlerts'[n], 0)
                              = <<LastCall>> \o MemberlistGetAlerts(mlAlerts[n], 0)]_vars

\* A local store with room for two holds two differing records, and
\* getAlerts("", 0) lists the second saved before the first.
C12_Witness ==
    /\ storeType = "memory"
    /\ maxSize >= 2
    /\ Len(calls) = 2
    /\ calls[1] # calls[2]
    /\ MemoryGetAlerts(alerts, 0) = <<calls[2], calls[1]>>

\* ---------------------------------------------------------------------- C13

\* How many records of a list have the identity of entry.
IdentityCount(list, entry) ==
    Cardinality({i \in 1..Len(list) : Identity(list[i]) = Identity(entry)})

Identities(list) == {Identity(list[i]) : i \in 1..Len(list)}

\* The saved records no other save shares its identity with.
SavedOnce ==
    {calls[i] : i \in {j \in 1..Len(calls) :
                          \A k \in 1..Len(calls) :
                              Identity(calls[k]) = Identity(calls[j]) => k = j}}

\* A broadcast or a snapshot has been handled: no save is issued, a list changes.
DeliveryStep == calls' = calls /\ mlAlerts' # mlAlerts

\* C13: a record saved on one node of a replicated store is never held twice
\* by a node, however often and in whatever order its broadcast and the
\* snapshots containing it are delivered, and a delivery that brings a node
\* only identities it holds leaves that node's list unchanged.
C13_DeliveredOnce ==
    /\ [](storeType = "memberlist" =>
             \A n \in Nodes : \A R \in SavedOnce : IdentityCount(mlAlerts[n], R) <= 1)
    /\ [][DeliveryStep =>
             \A n \in Nodes :
                 mlAlerts'[n] # mlAlerts[n] =>
                     ~(Identities(mlAlerts'[n]) \subseteq Identities(mlAlerts[n]))]_vars

\* ------------------------------------------------- the snapshot exchange

SyncAlerts == {AlertCpu, AlertDisk, AlertNoName}

SyncRecords == {Entry(alert, s_firing, t, Nil) : alert \in SyncAlerts, t \in 0..MaxTime}

\* The lists of at most n records, no two of them with the same identity.
SyncLists(n) ==
    {list \in UNION {[1..k -> SyncRecords] : k \in 0..n} :
        \A i, j \in 1..Len(list) :
            list[i].timestamp = list[j].timestamp
                /\ MapGet(list[i].alert.labels, s_alertname)
                       = MapGet(list[j].alert.labels, s_alertname)
            => i = j}

\* Two initialized stores of one capacity after the saves have stopped, each
\* holding any list within the capacity; no node has merged a snapshot yet
\* (output holds the nodes that have).
InitSync ==
    /\ storeType = "memberlist"
    /\ alertStoreSize \in 0..MaxCap
    /\ maxSize = alertStoreSize
    /\ LockInit
    /\ limit = NewLimit(alertStoreSize)
    /\ mlAlerts \in [Nodes -> SyncLists(Min(limit, MaxSync))]
    /\ ml = [n \in Nodes |-> Cardinality(Nodes)]
    /\ broadcasts = [n \in Nodes |-> {}]
    /\ calls = << >>
    /\ input = Nil
    /\ output = <<{}>>
    /\ now = 0
    /\ crashed = FALSE
    /\ spawned = 0
    /\ disp = [d \in Dispatches |-> IdleDispatch]
    /\ apiJobs = NilMap
    /\ JobStore = NilMap
    /\ alerts = << >>
    /\ httpStatus = 0
    /\ metrics = NoMetrics

\* Push/pull: node n merges the state its peer m holds now.
SyncMerge(n, m) ==
    /\ n # m
    /\ n \notin output[1]
    /\ \E result \in MergeResults(mlAlerts[n], LocalState(m), limit) :
          mlAlerts' = [mlAlerts EXCEPT ![n] = result]
    /\ output' = <<output[1] \cup {n}>>
    /\ UNCHANGED <<input, now, dispatchVars, alerts, maxSize, lockVars>>
    /\ UNCHANGED <<limit, ml, broadcasts, calls, storeType, alertStoreSize>>

NextSync == \E n \in Nodes, m \in Nodes : SyncMerge(n, m)

SpecSync == InitSync /\ [][NextSync]_vars

\* ---------------------------------------------------------------------- C14

\* C14: two replicated stores of equal capacity whose records have pairwise
\* distinct identities hold the same set of records once no save is made and
\* each has merged the other's full-state snapshot.
C14_MembershipConverges ==
    output[1] = Nodes => Range(mlAlerts["A"]) = Range(mlAlerts["B"])

\* -------------------------------------------- the replicated store's cluster

\* What the nodes of the cluster save: one alert, firing and resolved.
ClusterAlerts == {AlertCpu}

ClusterStatuses == {s_firing, s_resolved}

\* Every record a node of the cluster can save.
ClusterRecords ==
    {Entry(alert, status, t, Nil) :
        alert \in ClusterAlerts, status \in ClusterStatuses, t \in 0..MaxTime}

\* main on every node: a replicated store of capacity --alertStoreSize >= 1 is
\* constructed; Initialize has not run yet.
InitCluster ==
    /\ storeType = "memberlist"
    /\ alertStoreSize \in 1..MaxCap
    /\ maxSize = alertStoreSize
    /\ LockInit
    /\ limit = NewLimit(alertStoreSize)
    /\ mlAlerts = [n \in Nodes |-> << >>]
    /\ ml = [n \in Nodes |-> 0]
    /\ broadcasts = [n \in Nodes |-> {}]
    /\ calls = << >>
    /\ FnInit
    /\ now = 0
    /\ crashed = FALSE
    /\ spawned = 0
    /\ disp = [d \in Dispatches |-> IdleDispatch]
    /\ apiJobs = NilMap
    /\ JobStore = NilMap
    /\ alerts = << >>
    /\ httpStatus = 0
    /\ metrics = NoMetrics

\* MemberlistStore.Initialize on node n. When memberlist.Create fails the call
\* returns the error before s.ml is set (main then exits, and the node's next
\* start finds a store as constructed). Otherwise s.ml and s.broadcasts are set,
\* and the node joins the nodes that are up unless Join fails or none is up.
Initialize(n, createErr, joinErr) ==
    /\ storeType = "memberlist"
    /\ ml[n] = 0
    /\ output' = <<InitializeReturns(createErr, joinErr)>>
    /\ ml' = IF createErr THEN ml
             ELSE IF ~joinErr /\ \E m \in Nodes \ {n} : ml[m] > 0
                  THEN LET members == {x \in Nodes : x = n \/ ml[x] > 0}
                       IN  [x \in Nodes |-> IF x \in members THEN Cardinality(members) ELSE 0]
                  ELSE [ml EXCEPT ![n] = 1]
    /\ UNCHANGED <<now, dispatchVars, alerts, maxSize, lockVars>>
    /\ UNCHANGED <<mlAlerts, limit, broadcasts, calls, storeType, alertStoreSize, input>>

\* The server saves once Initialize has returned without error.
ClusterSave(n, alert, status, marshalErr) ==
    /\ ml[n] > 0
    /\ MemberlistSave(n, alert, status, Nil, marshalErr)

NextCluster ==
    \/ Tick
    \/ \E n \in Nodes, createErr \in BOOLEAN, joinErr \in BOOLEAN :
          Initialize(n, createErr, joinErr)
    \/ \E n \in Nodes, alert \in ClusterAlerts, status \in ClusterStatuses, marshalErr \in BOOLEAN :
          ClusterSave(n, alert, status, marshalErr)
    \/ \E n \in Nodes : \E data \in Incoming(n) : NotifyMsg(n, data)
    \/ \E n \in Nodes : \E buf \in Snapshots(n) : MergeRemoteState(n, buf)

SpecCluster == InitCluster /\ [][NextCluster]_vars

\* Fair delivery: a broadcast that stays deliverable to a node is delivered.
FairDelivery ==
    \A n \in Nodes : \A R \in ClusterRecords :
        WF_vars(Marshal(R) \in Incoming(n) /\ NotifyMsg(n, Marshal(R)))

SpecClusterFair == SpecCluster /\ FairDelivery

\* ---------------------------------------------------------------------- C15

\* The list holds a record with the identity of R.
HoldsIdentity(list, R) == \E i \in 1..Len(list) : Identity(list[i]) = Identity(R)

\* A save that returned without error has queued its record on the saving node.
SavedIsQueued ==
    (SaveStep /\ output' = <<ErrNone>>) =>
        \E n \in Nodes :
            /\ mlAlerts'[n] = PrependTrim(mlAlerts[n], LastCall, limit)
            /\ Marshal(LastCall) \in broadcasts'[n]

\* No step takes a broadcast off a queue.
NeverInvalidated == \A n \in Nodes : broadcasts[n] \subseteq broadcasts'[n]

\* C15: every record saved on an initialized replicated store is queued for
\* broadcast, a queued broadcast is never invalidated by a later one, and under
\* fair delivery the record is eventually present on every peer.
C15_EveryRecordReachesPeers ==
    /\ [][SavedIsQueued /\ NeverInvalidated]_vars
    /\ \A n \in Nodes : \A peer \in Nodes \ {n} : \A R \in ClusterRecords :
           (Marshal(R) \in broadcasts[n] /\ peer \in Peers(n))
               ~> (R \in Range(mlAlerts[peer]))

\* C15, amended: the record, or a record of its identity, is eventually held
\* by every peer.
C15_EveryIdentityReachesPeers ==
    /\ [][SavedIsQueued /\ NeverInvalidated]_vars
    /\ \A n \in Nodes : \A peer \in Nodes \ {n} : \A R \in ClusterRecords :
           (Marshal(R) \in broadcasts[n] /\ peer \in Peers(n))
               ~> HoldsIdentity(mlAlerts[peer], R)

\* A record queued on A, which B did not save, is held by B after a later
\* record was queued on A.
C15_Witness ==
    \E R \in ClusterRecords :
        /\ Marshal(R) \in broadcasts["A"]
        /\ Cardinality(broadcasts["A"]) >= 2
        /\ broadcasts["B"] = {}
        /\ R \in Range(mlAlerts["B"])
        /\ \E later \in ClusterRecords :
               Marshal(later) \in broadcasts["A"] /\ later.timestamp > R.timestamp

\* ---------------------------------------------------------------------- C16

\* Initialize has left node n a single-member cluster: Join failed, or no
\* other node was up.
StaysAlone(n) == ml[n] = 0 /\ ml'[n] = 1

\* A save does on its node what it does on a joined one: the record is
\* prepended, the list trimmed, and the record queued unless it did not marshal.
SavesAsJoined ==
    SaveStep =>
        \E n \in Nodes :
            /\ mlAlerts' = [mlAlerts EXCEPT ![n] = PrependTrim(@, LastCall, limit)]
            /\ broadcasts' = IF output' = <<ErrNone>>
                             THEN [broadcasts EXCEPT ![n] = @ \cup {Marshal(LastCall)}]
                             ELSE broadcasts

\* C16: a failure to join during Initialize is not fatal: Initialize returns
\* nil, the node serves as a single-member cluster, and saves and getAlerts on
\* it behave as on a joined node.
C16_JoinFailureIsNotFatal ==
    /\ [][(\A n \in Nodes : StaysAlone(n) => output' = <<ErrNone>>) /\ SavesAsJoined]_vars
    /\ [](\A n \in Nodes : ml[n] > 0 => MemberlistGetAlerts(mlAlerts[n], 0) = mlAlerts[n])

\* Both nodes are up, each a cluster of its own (the join of the second one
\* failed), and each holds and has queued a record it saved.
C16_Witness ==
    /\ \A n \in Nodes : ml[n] = 1 /\ mlAlerts[n] # << >> /\ broadcasts[n] # {}
    /\ mlAlerts["A"] # mlAlerts["B"]

\* ---------------------------------------------------------------------- C17

\* C17: a save on the replicated store returns nil or the marshal error of
\* its record, nothing else; when it returns the marshal error the record has
\* been added to the node's list all the same and no broadcast is queued.
C17_OnlyMarshalFails ==
    [][SaveStep =>
         /\ output' \in {<<ErrNone>>, <<ErrMarshal>>}
         /\ output' = <<ErrMarshal>> =>
                /\ \E n \in Nodes :
                       mlAlerts' = [mlAlerts EXCEPT ![n] = PrependTrim(@, LastCall, limit)]
                /\ broadcasts' = broadcasts]_vars

\* The last save returned the marshal error: its record heads a node's list
\* and is on no queue.
C17_Witness ==
    /\ output = <<ErrMarshal>>
    /\ calls # << >>
    /\ \E n \in Nodes : mlAlerts[n] # << >> /\ mlAlerts[n][1] = calls[Len(calls)]
    /\ \A n \in Nodes : Marshal(calls[Len(calls)]) \notin broadcasts[n]

\* ------------------------------------------------- concurrent writers

WriterRecords ==
    {Entry(alert, s_firing, t, Nil) : alert \in StoreAlerts, t \in 0..MaxTime}

\* The calls a goroutine can make on a store: a save, and on a replicated
\* store the delegate's callbacks with what the network hands them.
WriterCalls(type) ==
    {[op |-> "save", arg |-> alert] : alert \in StoreAlerts}
        \cup (IF type = "memory" THEN {}
              ELSE {[op |-> "notify", arg |-> data] :
                       data \in {<< >>, Garbage} \cup {Marshal(R) : R \in WriterRecords}}
                   \cup {[op |-> "merge", arg |-> buf] :
                       buf \in {<< >>, Garbage} \cup {Marshal(<<R>>) : R \in WriterRecords}})

\* One store (of a replicated one: node A), empty, of capacity 1..MaxWriters,
\* and MaxWriters goroutines each about to make one call on it.
InitWriters ==
    /\ storeType \in {"memory", "memberlist"}
    /\ alertStoreSize \in 1..MaxWriters
    /\ maxSize = alertStoreSize
    /\ limit = NewLimit(alertStoreSize)
    /\ mlAlerts = [n \in Nodes |-> << >>]
    /\ ml = [n \in Nodes |-> IF storeType = "memberlist" THEN Cardinality(Nodes) ELSE 0]
    /\ broadcasts = [n \in Nodes |-> {}]
    /\ calls = << >>
    /\ FnInit
    /\ now = 0
    /\ crashed = FALSE
    /\ spawned = 0
    /\ disp = [d \in Dispatches |-> IdleDispatch]
    /\ apiJobs = NilMap
    /\ JobStore = NilMap
    /\ alerts = << >>
    /\ httpStatus = 0
    /\ metrics = NoMetrics
    /\ mutex = Nil
    /\ writers \in [Writers -> {[pc |-> "start", op |-> c.op, arg |-> c.arg,
                                 entry |-> Nil, local |-> Nil] : c \in WriterCalls(storeType)}]

\* The list of the store the goroutines write to.
WrittenList == IF storeType = "memory" THEN alerts ELSE mlAlerts["A"]

WriterUnchanged ==
    UNCHANGED <<dispatchVars, maxSize, limit, ml, storeType, alertStoreSize, fnVars>>

\* Variant: a callback goes on with a zero entry when its buffer does not decode.
WriterBeginLenient(w) ==
    LET self == writers[w]
    IN  /\ self.pc = "start"
        /\ writers' = [writers EXCEPT ![w] =
               IF self.op = "save"
               THEN [self EXCEPT !.pc = "lock",
                                 !.entry = <<Entry(self.arg, s_firing, now, Nil)>>]
               ELSE IF self.arg = << >>
                    THEN [self EXCEPT !.pc = "done"]
                    ELSE IF ~Unmarshals(self.arg)
                    THEN [self EXCEPT !.pc = "lock",
                                      !.entry = <<Entry([labels |-> NilMap], s_empty, 0, Nil)>>]
                    ELSE [self EXCEPT !.pc = "lock", !.entry = <<Unmarshal(self.arg)>>]]
        /\ calls' = IF self.op = "save"
                    THEN Append(calls, Entry(self.arg, s_firing, now, Nil)) ELSE calls
        /\ UNCHANGED <<now, mutex, alerts, mlAlerts, broadcasts>>
        /\ WriterUnchanged

\* Before the lock: a save builds its entry with time.Now(); a callback
\* returns on an empty or undecodable buffer and otherwise keeps what it decoded.
WriterBegin(w) ==
    LET self == writers[w]
    IN  /\ self.pc = "start"
        /\ writers' = [writers EXCEPT ![w] =
               IF self.op = "save"
               THEN [self EXCEPT !.pc = "lock",
                                 !.entry = <<Entry(self.arg, s_firing, now, Nil)>>]
               ELSE IF self.arg = << >> \/ ~Unmarshals(self.arg)
                    THEN [self EXCEPT !.pc = "done"]
                    ELSE [self EXCEPT !.pc = "lock", !.entry = <<Unmarshal(self.arg)>>]]
        /\ calls' = IF self.op = "save"
                    THEN Append(calls, Entry(self.arg, s_firing, now, Nil)) ELSE calls
        /\ UNCHANGED <<now, mutex, alerts, mlAlerts, broadcasts>>
        /\ WriterUnchanged

\* s.mutex.Lock().
WriterLock(w) ==
    /\ writers[w].pc = "lock"
    /\ Free(mutex)
    /\ mutex' = <<w>>
    /\ writers' = [writers EXCEPT ![w].pc = "read"]
    /\ UNCHANGED <<now, calls, alerts, mlAlerts, broadcasts>>
    /\ WriterUnchanged

\* The critical section reads s.alerts ...
WriterRead(w) ==
    /\ writers[w].pc = "read"
    /\ writers' = [writers EXCEPT ![w].pc = "write", ![w].local = <<WrittenList>>]
    /\ UNCHANGED <<now, calls, mutex, alerts, mlAlerts, broadcasts>>
    /\ WriterUnchanged

\* The lists a call can make of the list it read.
WriterResults(self) ==
    LET list == self.local[1]
    IN  IF self.op = "save"
        THEN {IF storeType = "memory" THEN MemoryAppend(list, self.entry[1], maxSize)
              ELSE PrependTrim(list, self.entry[1], limit)}
        ELSE IF self.op = "notify"
             THEN {IF Held(list, self.entry[1]) THEN list
                   ELSE PrependTrim(list, self.entry[1], limit)}
             ELSE MergeResults(list, self.arg, limit)

\* ... and assigns it; a save on a replicated store then queues its broadcast.
WriterWrite(w) ==
    LET self == writers[w]
    IN  /\ self.pc = "write"
        /\ \E result \in WriterResults(self) :
              IF storeType = "memory"
              THEN alerts' = result /\ UNCHANGED mlAlerts
              ELSE mlAlerts' = [mlAlerts EXCEPT !["A"] = result] /\ UNCHANGED alerts
        /\ broadcasts' = IF storeType = "memberlist" /\ self.op = "save"
                         THEN [broadcasts EXCEPT !["A"] =
                                  SaveQueues(@, self.entry[1], FALSE, ml["A"])]
                         ELSE broadcasts
        /\ writers' = [writers EXCEPT ![w].pc = "unlock"]
        /\ UNCHANGED <<now, calls, mutex>>
        /\ WriterUnchanged

\* defer s.mutex.Unlock().
WriterUnlock(w) ==
    /\ writers[w].pc = "unlock"
    /\ mutex' = Nil
    /\ writers' = [writers EXCEPT ![w].pc = "done"]
    /\ UNCHANGED <<now, calls, alerts, mlAlerts, broadcasts>>
    /\ WriterUnchanged

NextWriters ==
    \/ Tick
    \/ \E w \in Writers : WriterBegin(w)
    \/ \E w \in Writers : WriterLock(w)
    \/ \E w \in Writers : WriterRead(w)
    \/ \E w \in Writers : WriterWrite(w)
    \/ \E w \in Writers : WriterUnlock(w)

SpecWriters == InitWriters /\ [][NextWriters]_vars

\* ---------------------------------------------------------------------- C18

\* The records the callbacks bring.
Delivered ==
    UNION {IF writers[w].op = "notify" /\ writers[w].entry # Nil THEN {writers[w].entry[1]}
           ELSE IF writers[w].op = "merge" /\ writers[w].entry # Nil
                THEN Range(writers[w].entry[1]) ELSE {} : w \in Writers}

\* How many saves have built the record R.
SavesOf(R) == Cardinality({i \in 1..Len(calls) : calls[i] = R})

\* C18: when the goroutines writing to one store concurrently (saves, and on a
\* replicated store NotifyMsg and MergeRemoteState callbacks) have all
\* returned and their records fit the capacity, the store holds every record:
\* one copy per save of it, and one copy of a record only callbacks brought.
C18_NoRecordLost ==
    (/\ \A w \in Writers : writers[w].pc = "done"
     /\ Len(calls) + Cardinality(Delivered)
            <= (IF storeType = "memory" THEN maxSize ELSE limit)) =>
        \A R \in Range(calls) \cup Delivered :
            /\ Count(WrittenList, R) >= 1
            /\ Count(WrittenList, R) >= SavesOf(R)
            /\ Count(WrittenList, R) <= SavesOf(R) + (IF R \in Delivered THEN 1 ELSE 0)


\* ---------------------------------------------------------------------- C19

\* d has passed its dedup check and holds a job to submit whose name neither
\* the cluster nor the index knows.
ReadyToSubmit(d) ==
    /\ ~crashed
    /\ disp[d].pc = "submit"
    /\ disp[d].groupKey # s_empty
    /\ disp[d].jobObject[1].containers # << >>
    /\ JobKey(disp[d].jobObject[1].name) \notin DOMAIN apiJobs

\* d's submission goes through: the job is created next to the ones held.
SubmitsNext(d) ==
    /\ Submit(d, FALSE, FALSE)
    /\ disp'[d].outcome = "Submitted"
    /\ DOMAIN apiJobs' = DOMAIN apiJobs \cup {JobKey(disp[d].jobObject[1].name)}

\* C19: the dedup race is open. A dispatch with a non-empty groupKey that
\* observed no active job in the Existing-Job Index and drew a name with
\* another random suffix can submit whatever the cluster and the index hold by
\* then, an active job of its group included: the exact-name existence check of
\* CreateRemediationJob does not stop it. With the witness, two dispatches of
\* one groupKey that both checked before the index showed either job have both
\* submitted.
C19_NameCheckLetsSecondThrough ==
    \A d \in Dispatches : ReadyToSubmit(d) => ENABLED SubmitsNext(d)

\* Two dispatches have both submitted, the index has shown neither job yet, and
\* the cluster holds two active jobs of one group key under different names.
C19_Witness ==
    \E g \in Keys :
        /\ \A d \in Dispatches : disp[d].outcome = "Submitted" /\ disp[d].creates = 1
        /\ JobStore = NilMap
        /\ \E k1, k2 \in ActiveOf(apiJobs, g) : k1 # k2


\* ------------------------------------------------------ one batch of alerts

\* One webhook with a batch of at most MaxDispatch alerts, drawn from every
\* alert and status of the model; its dispatches run concurrently.
NextBatch ==
    \/ /\ spawned = 0 /\ httpStatus = 0
       /\ \E message \in Messages(NarrowGroupKeys, Alerts, MaxDispatch) :
            AlertsPostHandler(message)
    \/ \E d \in Dispatches : DedupCheck(d)
    \/ \E d \in Dispatches, err \in BOOLEAN, sfx \in Suffixes : Resolve(d, err, sfx)
    \/ \E d \in Dispatches, getErr \in BOOLEAN, createErr \in BOOLEAN :
            Submit(d, getErr, createErr)
    \/ InformerSync
    \/ \E k \in DOMAIN apiJobs : JobStart(k)
    \/ \E k \in DOMAIN apiJobs, ok \in BOOLEAN : JobEnd(k, ok)

SpecBatch == Init /\ [][NextBatch]_vars

\* A step of the dispatch goroutine d.
DispatchStep(d) ==
    \/ DedupCheck(d)
    \/ \E err \in BOOLEAN, sfx \in Suffixes : Resolve(d, err, sfx)
    \/ \E getErr \in BOOLEAN, createErr \in BOOLEAN : Submit(d, getErr, createErr)

\* The Go scheduler lets every goroutine that can run take its next step.
SpecBatchFair == SpecBatch /\ \A d \in Dispatches : WF_vars(DispatchStep(d))

\* ---------------------------------------------------------------------- C20

\* d ends in this step without a job of its own.
Fails(d) ==
    /\ disp[d].pc \in {"resolve", "submit"}
    /\ disp'[d].outcome \in {"TemplateMissing", "SubmitFailed", "Panicked"}

\* The webhook spawns one dispatch per alert of the batch, each at its start.
SpawnsOnePerAlert ==
    [][spawned' # spawned =>
          /\ httpStatus' = 200
          /\ \A d \in Dispatches :
                IF d > spawned /\ d <= spawned'
                THEN disp'[d].pc = "dedup" /\ CheckAlertStatus(disp'[d].status)
                ELSE disp'[d] = disp[d]]_vars

\* The step in which a dispatch fails touches no other dispatch, no job and
\* not the process.
FailureIsLocal ==
    [][\A d \in Dispatches :
          Fails(d) =>
              /\ \A e \in Dispatches \ {d} : disp'[e] = disp[e]
              /\ apiJobs' = apiJobs /\ JobStore' = JobStore
              /\ crashed' = crashed]_vars

\* Every dispatch spawned ends with one record appended.
EveryDispatchEnds ==
    \A d \in Dispatches :
        (disp[d].pc = "dedup") ~> (disp[d].pc = "done" /\ disp[d].saves = 1)

\* C20: for a batch of N alerts with a valid status N independent dispatches
\* are spawned; a dispatch that fails (template missing, invalid template,
\* submission error) neither prevents nor changes the outcome of any other
\* dispatch of the batch, and each dispatch ends with its own record appended.
C20_BatchIndependent ==
    /\ SpawnsOnePerAlert
    /\ FailureIsLocal
    /\ EveryDispatchEnds


\* ------------------------------------------------------ one webhook request

\* Bytes after the end of the first JSON value of a body.
s_trailing == <<125, 120>>

\* The bodies a client can post: a JSON value that decodes into a HookMessage,
\* with nothing or with more bytes after it; a JSON value of another shape
\* (status a number); bytes that are no JSON value.
Bodies ==
    {[first |-> "message", message |-> <<message>>, rest |-> rest] :
        message \in Messages(NarrowGroupKeys, Alerts, MaxDispatch),
        rest \in {s_empty, s_trailing}}
    \cup {[first |-> kind, message |-> Nil, rest |-> s_empty] : kind \in {"mistyped", "invalid"}}

\* json.NewDecoder(r.Body).Decode(&message): reads the next JSON value of the
\* stream and stops there; Nil for an error.
Decode(body) == IF body.first = "message" THEN body.message ELSE Nil

\* The server has one request to serve.
InitRequest ==
    /\ ReplInit
    /\ ServerInit
    /\ input \in {<<body>> : body \in Bodies}
    /\ output = Nil

\* POST /alerts.
ServeRequest ==
    /\ input # Nil
    /\ httpStatus = 0
    /\ IF Decode(input[1]) = Nil
       THEN AlertsPostHandlerMalformed
       ELSE AlertsPostHandler(Decode(input[1])[1])

NextRequest ==
    \/ ServeRequest
    \/ \E d \in Dispatches : DedupCheck(d)
    \/ \E d \in Dispatches, err \in BOOLEAN, sfx \in Suffixes : Resolve(d, err, sfx)
    \/ \E d \in Dispatches, getErr \in BOOLEAN, createErr \in BOOLEAN :
            Submit(d, getErr, createErr)
    \/ InformerSync
    \/ \E k \in DOMAIN apiJobs : JobStart(k)
    \/ \E k \in DOMAIN apiJobs, ok \in BOOLEAN : JobEnd(k, ok)

SpecRequest == InitRequest /\ [][NextRequest]_vars

\* ---------------------------------------------------------------------- C21

\* The body is one JSON document that decodes into a HookMessage.
WellFormed(body) == body.first = "message" /\ body.rest = s_empty

\* Nothing has been done for the request: no dispatch, no job, no record.
NothingStarted ==
    /\ spawned = 0
    /\ \A d \in Dispatches : disp[d] = IdleDispatch
    /\ apiJobs = NilMap
    /\ alerts = << >>

\* C21: a malformed inbound payload is rejected as a whole with a client error
\* (400) before any per-alert dispatch starts: once the request is answered, no
\* dispatch has been spawned, no job created and no record appended.
C21_MalformedIsRejected ==
    (httpStatus # 0 /\ ~WellFormed(input[1])) => (httpStatus = 400 /\ NothingStarted)


\* ---------------------------------------------------------------------- C22

\* d takes a step of its dispatch.
Dispatching(d) == disp[d].pc \in {"dedup", "resolve", "submit"} /\ disp'[d] # disp[d]

\* C22: the response to a well-formed payload does not depend on the outcome
\* of any dispatch. Every request with a decodable body is answered 200,
\* whatever the cluster, the template source and the index hold when it
\* arrives, and no step of a dispatch (dedup hit, missing template, submission
\* failure, success) touches the response.
C22_ResponseIgnoresOutcomes ==
    /\ [](httpStatus \in {0, 200})
    /\ [][\A d \in Dispatches : Dispatching(d) => httpStatus' = httpStatus]_vars

\* The request was answered 200; one of its dispatches created a job and
\* another one failed to.
C22_Witness ==
    /\ httpStatus = 200
    /\ \E d, e \in Dispatches :
          /\ disp[d].outcome = "Submitted"
          /\ disp[e].outcome \in {"SubmitFailed", "TemplateMissing"}


\* ---------------------------------------------------------------------- C23

\* d runs its submission in this step.
Submitting(d) == disp[d].pc = "submit" /\ disp'[d] # disp[d]

\* The index holds a job of the name d is about to submit.
NameIndexed(d) == JobKey(disp[d].jobObject[1].name) \in DOMAIN JobStore

\* C23: at submission the index is asked for the exact namespace/name. When
\* the lookup fails or the index holds a job of that name, CreateRemediationJob
\* returns an error without issuing a create call; and a submission that
\* issues no create call leaves the cluster as it is, records the alert
\* without job info and ends the dispatch.
C23_ExactNameRecheck ==
    /\ [](\A d \in Dispatches : disp[d].pc = "submit" =>
            \A createErr \in BOOLEAN :
               /\ CreateRemediationJob(disp[d].jobObject[1], TRUE, createErr) = "none"
               /\ NameIndexed(d) =>
                     CreateRemediationJob(disp[d].jobObject[1], FALSE, createErr) = "none")
    /\ [][\A d \in Dispatches :
             /\ (Submitting(d) /\ NameIndexed(d)) => disp'[d].creates = 0
             /\ (Submitting(d) /\ disp'[d].creates = 0) =>
                   /\ apiJobs' = apiJobs
                   /\ disp'[d].pc = "done"
                   /\ disp'[d].outcome = "SubmitFailed"
                   /\ disp'[d].saves = 1
                   /\ Appended(alerts, alerts', disp[d].alert, disp[d].status)]_vars

\* Next to a dispatch whose job the index holds, a dispatch has ended its
\* submission without a create call, its record without job info the last of
\* the store.
C23_Witness ==
    \E d, e \in Dispatches :
        /\ disp[e].outcome = "Submitted"
        /\ disp[d].outcome = "SubmitFailed" /\ disp[d].creates = 0 /\ disp[d].saves = 1
        /\ alerts[Len(alerts)].jobInfo = Nil
        /\ Cardinality(DOMAIN JobStore) = 1


\* ------------------------------------------------- one batch, any template

\* Alerts for every state of the template source: a template, no ConfigMap,
\* a ConfigMap without the alert's entry, an empty entry, an entry that is no
\* job document.
ResolveAlerts == {AlertCpu, AlertMem, AlertLowerDisk}

\* A single webhook with a batch of at most MaxDispatch of them.
NextResolve ==
    \/ /\ spawned = 0 /\ httpStatus = 0
       /\ \E message \in Messages(NarrowGroupKeys, ResolveAlerts, MaxDispatch) :
            AlertsPostHandler(message)
    \/ \E d \in Dispatches : DedupCheck(d)
    \/ \E d \in Dispatches, err \in BOOLEAN, sfx \in Suffixes : Resolve(d, err, sfx)
    \/ \E d \in Dispatches, getErr \in BOOLEAN, createErr \in BOOLEAN :
            Submit(d, getErr, createErr)
    \/ InformerSync
    \/ \E k \in DOMAIN apiJobs : JobStart(k)
    \/ \E k \in DOMAIN apiJobs, ok \in BOOLEAN : JobEnd(k, ok)

SpecResolve == Init /\ [][NextResolve]_vars

\* ---------------------------------------------------------------------- C24

\* d runs its template resolution in this step.
Resolving(d) == disp[d].pc = "resolve" /\ disp'[d] # disp[d]

\* The template source has no job document for d's alert and status: the
\* ConfigMap is absent, or its entry for the alert name is absent, empty or
\* malformed.
NoTemplate(d) ==
    LET key == JobKey(responsesConfigmap(disp[d].alert, disp[d].status))
        name == alertnameOf(disp[d].alert)
    IN  \/ key \notin DOMAIN ConfigMapStore
        \/ name \notin DOMAIN ConfigMapStore[key].data
        \/ ConfigMapStore[key].data[name] = s_empty
        \/ ConfigMapStore[key].data[name] = Malformed

\* C24: when template resolution fails (lookup error, ConfigMap absent, entry
\* absent or empty, malformed job document) the dispatch issues no create
\* call, records the alert without job info and returns, and it is not run
\* again. A resolution step never issues a create call; when there is no
\* template, or the step ends the dispatch for a lookup error, the dispatch is
\* done with one record without job info; a dispatch that is done stays done.
C24_ResolutionFailureRecords ==
    [][\A d \in Dispatches :
          /\ Resolving(d) => (apiJobs' = apiJobs /\ disp'[d].creates = 0)
          /\ (Resolving(d) /\ (NoTemplate(d) \/ disp'[d].pc = "done")) =>
                /\ disp'[d].pc = "done"
                /\ disp'[d].outcome = "TemplateMissing"
                /\ disp'[d].saves = 1
                /\ Appended(alerts, alerts', disp[d].alert, disp[d].status)
          /\ disp[d].pc = "done" => disp'[d] = disp[d]]_vars

\* The dispatch of an alert whose entry is no job document has ended: no job,
\* no create call, its record without job info in the store.
C24_Witness ==
    \E d \in Dispatches :
        /\ disp[d].outcome = "TemplateMissing"
        /\ disp[d].creates = 0 /\ disp[d].saves = 1
        /\ apiJobs = NilMap
        /\ alerts # << >>
        /\ LastRecord.alert = AlertMem /\ LastRecord.status = s_resolved
        /\ LastRecord.jobInfo = Nil


\* ---------------------------------------------------------------------- C25

\* The positions a dispatch moves through, in the order of CreateResponseJob.
StepOrder ==
    {<<"idle", "dedup">>, <<"dedup", "resolve">>, <<"dedup", "done">>,
     <<"resolve", "submit">>, <<"resolve", "done">>, <<"resolve", "panic">>,
     <<"submit", "done">>}

\* The job d holds after this step has been decorated: TTL, ownership labels,
\* and the group-key label when d has a group key.
Decorated(d) ==
    LET jobObject == disp'[d].jobObject[1]
    IN  /\ CheckJobTTL(jobObject)
        /\ CheckJobLabels(jobObject, LabelSelector)
        /\ disp[d].groupKey # s_empty => Labelled(jobObject, disp[d].groupKey)

\* C25: the steps of a dispatch happen in the order dedup check, template
\* resolution, decoration, submission, record. A dispatch passes the dedup
\* check only with an empty groupKey or an index without an active job of its
\* group; it reaches submission only with a template resolved and decorated;
\* a job enters the cluster, and a create call is counted, only in a
\* submission step; the record is appended in the step that ends the dispatch,
\* and after a submission it carries job info exactly when the create call
\* returned a job.
C25_StepsInOrder ==
    [][/\ \A d \in Dispatches :
             /\ disp'[d].pc # disp[d].pc => <<disp[d].pc, disp'[d].pc>> \in StepOrder
             /\ (disp[d].pc = "dedup" /\ disp'[d].pc = "resolve") =>
                    \/ disp[d].groupKey = s_empty
                    \/ ActiveOf(JobStore, disp[d].groupKey) = {}
             /\ (disp[d].pc = "resolve" /\ disp'[d].pc = "submit") =>
                    ~NoTemplate(d) /\ Decorated(d)
             /\ disp'[d].creates # disp[d].creates => Submitting(d)
             /\ disp'[d].saves # disp[d].saves =>
                    /\ disp'[d].pc = "done"
                    /\ disp'[d].saves = disp[d].saves + 1
                    /\ alerts' # << >>
             /\ Submitting(d) =>
                    /\ disp'[d].creates = 1 => disp'[d].saves = 1
                    /\ (alerts'[Len(alerts')].jobInfo # Nil)
                           <=> (DOMAIN apiJobs' # DOMAIN apiJobs)
       /\ DOMAIN apiJobs' # DOMAIN apiJobs => \E d \in Dispatches : Submitting(d)]_vars

\* A dispatch with a group key went through every step: its job, decorated,
\* is in the cluster and its record carries the job's name.
C25_Witness ==
    \E d \in Dispatches, k \in DOMAIN apiJobs, g \in Keys :
        /\ disp[d].outcome = "Submitted" /\ disp[d].creates = 1 /\ disp[d].saves = 1
        /\ Labelled(apiJobs[k], g) /\ CheckJobTTL(apiJobs[k])
        /\ alerts # << >>
        /\ LastRecord.jobInfo # Nil
        /\ LastRecord.jobInfo[1].jobName = apiJobs[k].name


\* ------------------------------------------------------------ HashGroupKey

\* The bytes of the group keys hashed: a, : and }.
KeyBytes == {97, 58, 125}

\* Every group key of at most MaxKeyLen of these bytes, the empty one included.
HashKeys == UNION {[1..n -> KeyBytes] : n \in 0..MaxKeyLen}

\* How often a caller hashes its key.
HashCalls == 2

InitHash ==
    /\ ReplInit
    /\ ServerInit
    /\ input \in {<<groupKey>> : groupKey \in HashKeys}
    /\ output = Nil

\* utils.HashGroupKey(groupKey), its results kept in the order of the calls.
CallHash ==
    /\ Len(output) < HashCalls
    /\ output' = Append(output, HashGroupKey(input[1]))
    /\ UNCHANGED <<input, now, dispatchVars, alerts, maxSize, lockVars, replVars>>

NextHash == CallHash

SpecHash == InitHash /\ [][NextHash]_vars

\* ---------------------------------------------------------------------- C26

IsDigit(c) == c \in 48..57

\* C27: for every non-empty group key the token starts with the letter g, a
\* non-digit, and is at most 63 characters long.
C27_LetterFirstAtMost63 ==
    \A i \in 1..Len(output) :
        input[1] # s_empty =>
            /\ output[i][1] = 103
            /\ ~IsDigit(output[i][1])
            /\ Len(output[i]) <= 63

\* A key of MaxKeyLen bytes has been hashed: g and the number in base 36.
C27_Witness ==
    /\ output # Nil
    /\ Len(input[1]) = MaxKeyLen
    /\ Len(output[1]) > 1
    /\ \A i \in 2..Len(output[1]) : output[1][i] \in 48..57 \cup 97..122


\* ---------------------------------------------------------------------- C28

\* job carries a label openfero.io/group-key, whatever its value.
Keyed(job) == s_groupKeyLabel \in DOMAIN job.labels

\* C28: a dispatch with an empty groupKey requests no dedup. Its dedup step
\* passes whatever jobs the index holds, appending nothing; the job it takes to
\* submission carries no openfero.io/group-key label, and neither does the job
\* its submission creates.
C28_EmptyKeyNoDedup ==
    [][\A d \in Dispatches :
          disp[d].groupKey = s_empty =>
              /\ (disp[d].pc = "dedup" /\ disp'[d] # disp[d]) =>
                    /\ disp'[d].pc = "resolve"
                    /\ disp'[d].saves = 0
                    /\ alerts' = alerts
              /\ (disp[d].pc = "resolve" /\ disp'[d].pc = "submit") =>
                    ~Keyed(disp'[d].jobObject[1])
              /\ Creates(d) =>
                    \A k \in DOMAIN apiJobs' \ DOMAIN apiJobs : ~Keyed(apiJobs'[k])]_vars

\* The index holds an active job of a group, and a job the index has not seen
\* yet, without a group-key label, is in the cluster next to it.
C28_Witness ==
    \E k1 \in DOMAIN JobStore, k2 \in DOMAIN apiJobs \ DOMAIN JobStore :
        /\ Keyed(JobStore[k1]) /\ Unresolved(JobStore[k1])
        /\ ~Keyed(apiJobs[k2])


\* -------------------------------------------------------- AddGroupKeyLabel

\* The label maps of the jobs labelled: none (a nil map), a label of the
\* template's own, the ownership labels alone and with another label, and a
\* map that already holds a group-key label.
LabelMaps ==
    {NilMap, (s_team :> s_sre), LabelSelector, LabelSelector @@ (s_team :> s_sre),
     (s_groupKeyLabel :> HashedKey[s_k2]) @@ LabelSelector}

LabelJobs ==
    {JobDoc(s_fix, labels, ttl, containers) :
        labels \in LabelMaps, ttl \in {Nil, <<300>>}, containers \in {<< >>, <<s_img>>}}

InitLabel ==
    /\ ReplInit
    /\ ServerInit
    /\ input \in {<<[jobObject |-> jobObject, groupKey |-> groupKey]>> :
                     jobObject \in LabelJobs, groupKey \in GroupKeys}
    /\ output = Nil

\* kubernetes.AddGroupKeyLabel(jobObject, groupKey): the job as the call leaves it.
CallLabel ==
    /\ output = Nil
    /\ output' = <<AddGroupKeyLabel(input[1].jobObject, input[1].groupKey)>>
    /\ UNCHANGED <<input, now, dispatchVars, alerts, maxSize, lockVars, replVars>>

NextLabel == CallLabel

SpecLabel == InitLabel /\ [][NextLabel]_vars

\* ---------------------------------------------------------------------- C29

\* C29: attaching the group-key label with a non-empty groupKey sets
\* openfero.io/group-key = hash(groupKey), on a nil label map too, and leaves
\* every other label and everything else of the job unchanged; so a job that
\* carried the ownership labels carries them and the hashed group-key label.
\* With an empty groupKey the job is left as it was.
C29_LabelSetOthersKept ==
    output # Nil =>
        LET jobObject == input[1].jobObject
            groupKey == input[1].groupKey
            labelled == output[1]
        IN  IF groupKey = s_empty THEN labelled = jobObject
            ELSE /\ DOMAIN labelled.labels = DOMAIN jobObject.labels \cup {s_groupKeyLabel}
                 /\ labelled.labels[s_groupKeyLabel] = HashGroupKey(groupKey)
                 /\ \A key \in DOMAIN jobObject.labels \ {s_groupKeyLabel} :
                        labelled.labels[key] = jobObject.labels[key]
                 /\ [labelled EXCEPT !.labels = jobObject.labels] = jobObject
                 /\ CheckJobLabels(jobObject, LabelSelector) =>
                        CheckJobLabels(labelled, LabelSelector)

\* A job with the ownership labels and a label of its own has been labelled
\* with a group key: it carries all of them.
C29_Witness ==
    /\ output # Nil
    /\ input[1].groupKey = s_k1
    /\ output[1].labels =
          (s_groupKeyLabel :> HashGroupKey(s_k1)) @@ LabelSelector @@ (s_team :> s_sre)


\* ------------------------------------------------- the two stores side by side

EquivAlerts == {AlertCpu, AlertAnnotated}

\* Two servers started with the same --alertStoreSize, one with each store
\* type: the local store in alerts, the replicated one on node A, initialized
\* and without peers. Both receive the same calls.
InitEquiv ==
    /\ storeType = "memory"
    /\ alertStoreSize \in 1..MaxCap + 1
    /\ maxSize = alertStoreSize
    /\ LockInit
    /\ limit = NewLimit(alertStoreSize)
    /\ alerts = << >>
    /\ mlAlerts = [n \in Nodes |-> << >>]
    /\ ml = [n \in Nodes |-> IF n = "A" THEN 1 ELSE 0]
    /\ broadcasts = [n \in Nodes |-> {}]
    /\ calls = << >>
    /\ FnInit
    /\ now = 0
    /\ crashed = FALSE
    /\ spawned = 0
    /\ disp = [d \in Dispatches |-> IdleDispatch]
    /\ apiJobs = NilMap
    /\ JobStore = NilMap
    /\ httpStatus = 0
    /\ metrics = NoMetrics

\* SaveAlertWithJobInfo on both stores, at the same time.
EquivSave(alert, status, jobInfo) ==
    LET entry == Entry(alert, status, now, jobInfo)
    IN  /\ ~crashed
        /\ Len(calls) < MaxSaves
        /\ StoreSaves(alert, status, jobInfo)
        /\ mlAlerts' = [mlAlerts EXCEPT !["A"] = PrependTrim(@, entry, limit)]
        /\ broadcasts' = [broadcasts EXCEPT !["A"] = SaveQueues(@, entry, FALSE, ml["A"])]
        /\ calls' = Append(calls, entry)
        /\ input' = Nil
        /\ output' = Nil
        /\ UNCHANGED <<now, spawned, disp, apiJobs, JobStore, httpStatus, metrics, maxSize, lockVars>>
        /\ UNCHANGED <<limit, ml, storeType, alertStoreSize>>

\* GetAlerts(query, limit) on both stores: output holds the two results.
EquivGet(query, n) ==
    /\ ~crashed
    /\ input' = <<[query |-> query, limit |-> n]>>
    /\ output' = <<MemoryGetAlertsQuery(alerts, query, n),
                   MemberlistGetAlertsQuery(mlAlerts["A"], query, n)>>
    /\ UNCHANGED <<now, dispatchVars, alerts, maxSize, lockVars, replVars>>

NextEquiv ==
    \/ Tick
    \/ \E alert \in EquivAlerts, status \in SearchStatuses, jobInfo \in JobInfos :
            EquivSave(alert, status, jobInfo)
    \/ \E query \in SearchQueries \cup {s_empty}, n \in SearchLimits : EquivGet(query, n)

SpecEquiv == InitEquiv /\ [][NextEquiv]_vars

\* ---------------------------------------------------------------------- C30

\* C30: for the same sequence of sequential saves on a local store and on a
\* replicated store without peers, built with the same capacity, every
\* getAlerts(query, limit) returns the same records in the same order from both.
C30_StoresAgree ==
    output # Nil => output[1] = output[2]


\* ------------------------------------------- the two save methods of a store

\* Store.SaveAlertWithJobInfo on the store main built (the local store, or
\* node A of the replicated one), as a function of the store's state: the
\* state the call leaves and what it returns. marshalErr: json.Marshal of the
\* entry fails. A local store of capacity 0 panics on s.alerts[-1].
SaveAlertWithJobInfo(alert, status, jobInfo, marshalErr) ==
    LET entry == Entry(alert, status, now, jobInfo)
    IN  IF storeType = "memory"
        THEN IF maxSize <= 0
             THEN [alerts |-> alerts, mlAlerts |-> mlAlerts, broadcasts |-> broadcasts,
                   crashed |-> TRUE, err |-> "panic"]
             ELSE [alerts |-> MemoryAppend(alerts, entry, maxSize), mlAlerts |-> mlAlerts,
                   broadcasts |-> broadcasts, crashed |-> FALSE, err |-> ErrNone]
        ELSE [alerts |-> alerts,
              mlAlerts |-> [mlAlerts EXCEPT !["A"] = PrependTrim(@, entry, limit)],
              broadcasts |-> [broadcasts EXCEPT
                                 !["A"] = SaveQueues(@, entry, marshalErr, ml["A"])],
              crashed |-> FALSE,
              err |-> IF marshalErr THEN ErrMarshal ELSE ErrNone]

\* Variant: SaveAlert passes an empty JobInfo instead of none.
SaveAlertEmptyInfo(alert, status, marshalErr) ==
    SaveAlertWithJobInfo(alert, status,
                         <<[configMapName |-> s_empty, jobName |-> s_empty,
                            image |-> s_empty]>>, marshalErr)

\* Store.SaveAlert, in both implementations.
SaveAlert(alert, status, marshalErr) ==
    SaveAlertWithJobInfo(alert, status, Nil, marshalErr)

SaveMethods == {"SaveAlert", "SaveAlertWithJobInfo"}

\* A caller saves through one of the two methods; input is the call and
\* output what it returned.
SaveCall(method, alert, status, jobInfo, marshalErr) ==
    LET r == IF method = "SaveAlert"
             THEN SaveAlert(alert, status, marshalErr)
             ELSE SaveAlertWithJobInfo(alert, status, jobInfo, marshalErr)
    IN  /\ ~crashed
        /\ Len(calls) < (IF storeType = "memory" THEN MaxLocalSaves ELSE MaxSaves)
        /\ method = "SaveAlert" => jobInfo = Nil
        /\ storeType = "memory" => ~marshalErr
        /\ alerts' = r.alerts
        /\ mlAlerts' = r.mlAlerts
        /\ broadcasts' = r.broadcasts
        /\ crashed' = r.crashed
        /\ input' = <<[method |-> method, alert |-> alert, status |-> status,
                       jobInfo |-> jobInfo, marshalErr |-> marshalErr]>>
        /\ output' = <<r.err>>
        /\ calls' = Append(calls, Entry(alert, status, now, jobInfo))
        /\ UNCHANGED <<now, spawned, disp, apiJobs, JobStore, httpStatus, metrics, maxSize, lockVars>>
        /\ UNCHANGED <<limit, ml, storeType, alertStoreSize>>

NextSave ==
    \/ Tick
    \/ \E method \in SaveMethods, alert \in StoreAlerts, status \in {s_firing, s_resolved},
          jobInfo \in JobInfos, marshalErr \in BOOLEAN :
            SaveCall(method, alert, status, jobInfo, marshalErr)

SpecSave == InitStore /\ [][NextSave]_vars

\* ---------------------------------------------------------------------- C31

\* C31: in both stores a call saveAlert(alert, status) leaves the state and
\* returns the value that saveAlertWithJobInfo(alert, status, none) leaves and
\* returns from the same state, and the record it adds has no job info.
C31_SaveAlertIsSaveWithNone ==
    [][(calls' # calls /\ input'[1].method = "SaveAlert") =>
          LET c == input'[1]
              r == SaveAlertWithJobInfo(c.alert, c.status, Nil, c.marshalErr)
          IN  /\ alerts' = r.alerts
              /\ mlAlerts' = r.mlAlerts
              /\ broadcasts' = r.broadcasts
              /\ crashed' = r.crashed
              /\ output' = <<r.err>>
              /\ (storeType = "memory" /\ ~crashed') =>
                    alerts'[Len(alerts')].jobInfo = Nil
              /\ storeType = "memberlist" => mlAlerts'["A"][1].jobInfo = Nil]_vars

\* saveAlert has returned nil on a replicated store that already held a record
\* with job info, which is still there behind the new record without.
C31_Witness ==
    /\ input # Nil
    /\ input[1].method = "SaveAlert"
    /\ output = <<ErrNone>>
    /\ storeType = "memberlist"
    /\ Len(mlAlerts["A"]) = 2
    /\ mlAlerts["A"][1].jobInfo = Nil
    /\ mlAlerts["A"][2].jobInfo # Nil


\* ---------------------------------------------------------------------- C32

\* Dispatch d's submission fails in this step.
SubmitFails(d) == disp[d].pc = "submit" /\ disp'[d].outcome = "SubmitFailed"

\* Every job the dispatches created is in the index and no dispatch is running.
Settled == AllDone /\ JobStore = Selected(apiJobs)

\* C32: jobs-created rises only with the index's add events, by one per job
\* added, so that once every created job is in the index it equals the number
\* of jobs there; jobs-succeeded and jobs-failed rise by one per job of the
\* index whose succeeded, resp. failed, count goes from 0 to positive, and
\* jobs-failed by one more with each failed submission of a dispatch.
C32_CountersAtTheirEvents ==
    /\ [](Settled => metrics.created = Cardinality(DOMAIN JobStore))
    /\ [][/\ metrics'.created =
                metrics.created + Cardinality(Added(JobStore, JobStore'))
          /\ metrics'.succeeded =
                metrics.succeeded + Cardinality(Turned(JobStore, JobStore', "succeeded"))
          /\ metrics'.failed =
                metrics.failed + Cardinality(Turned(JobStore, JobStore', "failed"))
                + Cardinality({d \in Dispatches : SubmitFails(d)})]_vars


\* ------------------------------------------- one dispatch, every template

TemplateAlerts == {AlertCpu, AlertDisk, AlertNet}

\* A single webhook of at most one alert whose template, where there is one,
\* comes with or without a TTL and with or without labels of its own.
NextTemplates ==
    \/ /\ spawned = 0 /\ httpStatus = 0
       /\ \E message \in Messages(GroupKeys, TemplateAlerts, 1) : AlertsPostHandler(message)
    \/ \E d \in Dispatches : DedupCheck(d)
    \/ \E d \in Dispatches, err \in BOOLEAN, sfx \in Suffixes : Resolve(d, err, sfx)
    \/ \E d \in Dispatches, getErr \in BOOLEAN, createErr \in BOOLEAN :
            Submit(d, getErr, createErr)
    \/ InformerSync
    \/ \E k \in DOMAIN apiJobs : JobStart(k)
    \/ \E k \in DOMAIN apiJobs, ok \in BOOLEAN : JobEnd(k, ok)

SpecTemplates == Init /\ [][NextTemplates]_vars

\* ---------------------------------------------------------------------- C33

\* The job document the template source holds for dispatch d's alert and status.
TemplateOf(d) ==
    ConfigMapStore[JobKey(responsesConfigmap(disp[d].alert, disp[d].status))]
        .data[alertnameOf(disp[d].alert)][1]

\* Dispatch d leaves template resolution with a decorated job in this step.
Decorating(d) == disp[d].pc = "resolve" /\ disp'[d].pc = "submit"

\* Dispatch d's create call returns a job in this step.
Creating(d) == disp[d].pc = "submit" /\ disp'[d].outcome = "Submitted"

\* The job the cluster holds under the name of the job dispatch d submits.
Created(d) == apiJobs'[JobKey(disp[d].jobObject[1].name)]

\* C33: the decorated job's TTL-after-finish is 300 when the template has none
\* and the template's own otherwise, and the job is created with the TTL the
\* decoration left.
C33_TTLOnlyWhenUnset ==
    [][\A d \in Dispatches :
          /\ Decorating(d) =>
                disp'[d].jobObject[1].ttl =
                    IF TemplateOf(d).ttl = Nil THEN <<300>> ELSE TemplateOf(d).ttl
          /\ Creating(d) => Created(d).ttl = disp[d].jobObject[1].ttl]_vars

\* A job whose template set a TTL of 0 is in the cluster with that TTL.
C33_Witness ==
    \E k \in DOMAIN apiJobs :
        /\ apiJobs[k].ttl = <<0>>
        /\ \E d \in Dispatches : disp[d].outcome = "Submitted"


\* ---------------------------------------------------------------------- C34

\* Every label of the template with a key outside the selector is on job j
\* with the template's value.
KeepsOwnLabels(template, j) ==
    \A key \in DOMAIN template.labels \ DOMAIN LabelSelector :
        key \in DOMAIN j.labels /\ j.labels[key] = template.labels[key]

\* C34: the decorated job satisfies the selector and still carries every label
\* of its template with a key outside the selector, whether or not the
\* template's labels satisfied the selector; the job is created with the
\* labels the decoration left.
C34_TemplateLabelsKept ==
    [][\A d \in Dispatches :
          /\ Decorating(d) =>
                /\ CheckJobLabels(disp'[d].jobObject[1], LabelSelector)
                /\ KeepsOwnLabels(TemplateOf(d), disp'[d].jobObject[1])
          /\ Creating(d) => Created(d).labels = disp[d].jobObject[1].labels]_vars


\* ---------------------------------------------------------------------- C35

\* C35: every job a dispatch takes to submission, and every job the cluster
\* holds, carries every key and value of the label selector, so the
\* selector-filtered view of the cluster the index follows leaves no job out.
C35_SubmittedJobsAreSelected ==
    /\ \A d \in Dispatches :
          disp[d].pc = "submit" => CheckJobLabels(disp[d].jobObject[1], LabelSelector)
    /\ \A k \in DOMAIN apiJobs : CheckJobLabels(apiJobs[k], LabelSelector)
    /\ Selected(apiJobs) = apiJobs
    /\ \A k \in DOMAIN JobStore : k \in DOMAIN apiJobs

\* The index holds a job whose template carried another value under the
\* selector's key.
C35_Witness ==
    \E k \in DOMAIN JobStore :
        /\ JobStore[k].ttl = <<0>>
        /\ JobStore[k].labels[s_app] = s_openfero
        /\ JobStore = apiJobs


\* ---------------------------------------------------------------------- C36

IsPrepend(before, after) ==
    after # << >> /\ after = PrependTrim(before, after[1], limit)

C37_PositionAgreesWithTime ==
    storeType = "memory" => NewestFirst(MemoryGetAlerts(alerts, 0))


\* ------------------------------------- two dispatches against the same index

\* The alerts and statuses the second dispatch of a pair is started with.
PairAlerts == {AlertCpu, AlertDisk, AlertNoName}

PairStatuses == {s_firing, s_resolved}

\* Two goroutines of CreateResponseJob about to make their dedup check, with
\* the same groupKey and the same index, the index holding any jobs and caught
\* up with the cluster: the first for a firing cpu alert, the second for any
\* alert and status. input keeps the arguments of the second.
InitPair ==
    /\ ReplInit
    /\ storeType = "memory"
    /\ alertStoreSize = DispatchCap
    /\ limit = NewLimit(DispatchCap)
    /\ now = 0
    /\ crashed = FALSE
    /\ spawned = 2
    /\ JobStore \in Indexes
    /\ apiJobs = JobStore
    /\ alerts = << >>
    /\ maxSize = DispatchCap
    /\ LockInit
    /\ httpStatus = 200
    /\ metrics = NoMetrics
    /\ output = Nil
    /\ \E g \in GroupKeys, alert \in PairAlerts, status \in PairStatuses :
          /\ input = <<[alert |-> alert, status |-> status, groupKey |-> g]>>
          /\ disp = [d \in Dispatches |->
                       IF d = 1
                       THEN [IdleDispatch EXCEPT !.pc = "dedup", !.alert = AlertCpu,
                                                 !.status = s_firing, !.groupKey = g]
                       ELSE IF d = 2
                       THEN [IdleDispatch EXCEPT !.pc = "dedup", !.alert = alert,
                                                 !.status = status, !.groupKey = g]
                       ELSE IdleDispatch]

\* Each goroutine makes its dedup check; the index stays as it is.
NextPair == \E d \in Dispatches : DedupCheck(d)

SpecPair == InitPair /\ [][NextPair]_vars

\* ---------------------------------------------------------------------- C38

\* Dispatch d has made its dedup check.
Decided(d) == disp[d].pc \notin {"idle", "dedup"}

\* C38: two dispatches with the same groupKey that make their dedup check
\* against the same index take the same decision (both short-circuit or both
\* proceed), whatever their alert names, alert labels and statuses.
C38_DecisionByKeyAndIndex ==
    (Decided(1) /\ Decided(2)) =>
        (disp[1].outcome = "DedupSkip" <=> disp[2].outcome = "DedupSkip")

\* A firing cpu alert and a resolved alert without a name, same group key,
\* same index: both were short-circuited.
C38_Witness ==
    /\ input # Nil
    /\ input[1].alert = AlertNoName /\ input[1].status = s_resolved
    /\ disp[1].outcome = "DedupSkip" /\ disp[2].outcome = "DedupSkip"


\* ---------------------------------------------------------------------- C39

\* Goroutine w runs a delegate callback handed a buffer that is empty or does
\* not decode.
Absorbs(w) ==
    /\ writers[w].op \in {"notify", "merge"}
    /\ writers[w].arg = << >> \/ ~Unmarshals(writers[w].arg)

\* C39: a peer broadcast or a remote snapshot that is empty or does not decode
\* leaves the record list as it is: the callback returns in its first step,
\* without the lock, and no step of it changes the list or the broadcast queue,
\* whatever the other goroutines are doing to the store.
C39_BadBufferAbsorbed ==
    [][\A w \in Writers :
          (Absorbs(w) /\ writers'[w] # writers[w]) =>
              /\ writers'[w].pc = "done"
              /\ writers'[w].entry = Nil
              /\ mlAlerts' = mlAlerts
              /\ broadcasts' = broadcasts
              /\ mutex' = mutex]_vars

\* An undecodable broadcast has been absorbed by a store that holds a record
\* another goroutine saved, while that goroutine still holds the lock.
C39_Witness ==
    \E w \in Writers, v \in Writers :
        /\ writers[w].op = "notify" /\ writers[w].arg = Garbage /\ writers[w].pc = "done"
        /\ writers[v].op = "save" /\ writers[v].pc = "unlock"
        /\ Len(mlAlerts["A"]) = 1


\* ------------------------------------------- one webhook request, any status

s_resolved_crlf == s_resolved \o <<13, 10>>
s_cr_pending == <<13>> \o s_pending

\* message.Status as a client may send it: the two statuses, with and without
\* line ends, in another case, another word, nothing.
StatusInputs ==
    RawStatuses \cup {s_resolved_crlf, s_RESOLVED, s_pending, s_cr_pending, s_empty}

\* The server has one request to serve: a body that decodes into a HookMessage
\* with any of these statuses and up to MaxDispatch alerts.
InitStatus ==
    /\ ReplInit
    /\ ServerInit
    /\ input \in {<<[first |-> "message", message |-> <<message>>, rest |-> s_empty]>> :
                     message \in [groupKey : NarrowGroupKeys, status : StatusInputs,
                                  alerts : Batches(NarrowAlerts, MaxDispatch)]}
    /\ output = Nil

SpecStatus == InitStatus /\ [][NextRequest]_vars

\* ---------------------------------------------------------------------- C40

\* The status of the posted message, CR and LF removed, is neither firing nor
\* resolved.
StatusRefused ==
    SelectSeq(input[1].message[1].status, NotCRLF) \notin {s_firing, s_resolved}

\* C40: a webhook that decodes and whose status, CR and LF removed, is not
\* exactly firing or resolved is answered without anything being started for
\* any alert of its batch: no dispatch, no job, no record, before the request
\* is served and ever after.
C40_OtherStatusSpawnsNothing ==
    StatusRefused => (NothingStarted /\ httpStatus \in {0, 200} /\ JobStore = NilMap)

\* The request with the status "\rpending" and two alerts has been answered.
C40_Witness ==
    /\ httpStatus = 200
    /\ input[1].message[1].status = s_cr_pending
    /\ Len(input[1].message[1].alerts) = 2
    /\ spawned = 0

====
